---- MODULE Spec2Model ----
(***************************************************************************)
(* BrevityBot (src/brevitybot.py): the term catalog and the per-guild      *)
(* rotation of get_next_brevity_term, the /nextterm and catalog refresh    *)
(* handlers, the post_brevity_term scheduler loop with the admin commands  *)
(* that steer it, and /quiz: question building, the votes of a public      *)
(* quiz, and close_and_summarize with the score lists it appends to.       *)
(*                                                                         *)
(* The bot is one asyncio event loop over a Redis store.  Every `await`    *)
(* on Redis or Discord is a point where another handler may run, so each   *)
(* action below is the code between two awaits together with the one       *)
(* store command it issues; a handler's position is kept in a pc field.    *)
(***************************************************************************)
EXTENDS Integers, Sequences, FiniteSets, TLC

\* ------------------------------------------------------------- bounds
\* Longest catalog of the sequential rotation.
MaxTerms == 3
\* Calls of get_next_brevity_term one behaviour of the sequential rotation
\* makes.
MaxCalls == 4
\* Longest page of terms an ingestion delivers in the concurrent rotation.
MaxPage == 2
\* /nextterm invocations one behaviour of the concurrent rotation starts.
MaxInvocations == 2
\* Catalog refreshes one behaviour starts.
MaxRefreshes == 1
\* The time of the first run of the scheduler loop.
StartTime == 400
\* Runs of the scheduler loop body in one behaviour.
MaxRuns == 3
\* Admin commands and guild events one behaviour of the scheduler sees.
MaxCommands == 1
\* Votes on the buttons of a public quiz in one behaviour.
MaxVotes == 2
\* Clicks on the buttons of a private quiz in one behaviour.
MaxClicks == 2
\* Minutes a behaviour lasts from its first /quiz.
MaxClock == 1
\* /greenieboard invocations in one behaviour.
MaxBoards == 1

\* ------------------------------------------------------------ universes
Guilds == {1, 2}
Keys == {"ALPHA", "BRAVO", "CHARLIE"}
\* The nil reply of Redis for an absent key or hash field.
NoValue == -1

\* A parsed term, as flush_term appends it.
Term(k, d) == [term |-> k, definition |-> d]
RotTerms == {Term(k, 1) : k \in Keys}

\* The sequences over S of length 0..n.
SeqsUpTo(S, n) == UNION {[1..m -> S] : m \in 0..n}

\* What parse_brevity_terms may return: one entry per <dt>, in page order,
\* neither sorted nor de-duplicated; the empty list on any failure.
ParsedPages(n) == SeqsUpTo(RotTerms, n)

KeysOf(ts) == {ts[i].term : i \in 1..Len(ts)}

\* Frames of get_next_brevity_term: 1 and 2 are /nextterm handlers (the field
\* was_reset records that the reset branch was taken); frame 0 belongs to the scheduler loop.
TickCaller == 0
CmdCallers == {1, 2}
Callers == {TickCaller} \cup CmdCallers

VARIABLES
    terms,          \* Redis TERMS_KEY: the stored list (<<>>: key absent)
    terms_backup,   \* Redis TERMS_KEY_backup
    used,           \* Redis set used_terms:<guild>
    call,           \* frames of get_next_brevity_term, one per caller
    upd,            \* frames of update_brevity_terms, one per caller
    returned,       \* history: keys each guild's completed calls returned
    budget,         \* history: invocations, refreshes, commands started so far
    post_channels,  \* Redis hash CHANNEL_MAP_KEY: guild -> channel
    post_freq,      \* Redis post_freq:<guild>
    last_posted,    \* Redis last_posted:<guild>
    disabled_posting, \* Redis set DISABLED_GUILDS_KEY
    now,            \* time.time(), in units of 150 seconds
    reachable,      \* guilds whose configured channel client.get_channel finds
    tick,           \* frame of the post_brevity_term loop
    handler,        \* per guild: position of /setup or on_guild_remove
    posts,          \* history: the scheduled posts delivered
    off,            \* history: guilds disabled or removed, not enabled since
    clock,          \* time.time() in minutes, for the quiz timers
    quiz,           \* frames of /quiz and of the session each one starts
    answers,        \* Redis hashes quiz:<quiz_id>:answers:<question>
    greenie,        \* Redis lists greenie:<guild>:<user>
    gboard,         \* frame of /greenieboard
    cache,          \* brevity.json, the cache file of brevity_discord_bot.py
    legacy          \* history: what the last handler of brevity_discord_bot.py did

rotVars == <<terms, terms_backup, used, call, upd, returned>>
schedVars == <<post_channels, post_freq, last_posted, disabled_posting, now,
               reachable, tick, handler, posts, off>>
schedVarsButTick == <<post_channels, post_freq, last_posted, disabled_posting,
                      now, reachable, handler, posts, off>>
quizVars == <<clock, quiz, answers, greenie>>
moreVars == <<gboard, cache, legacy>>
vars == <<rotVars, budget, schedVars, quizVars, moreVars>>

IdleCall == [pc |-> "idle", guild |-> 0, all_terms |-> <<>>,
             unused_terms |-> <<>>, was_reset |-> FALSE, chosen |-> <<>>]
\* Callers of update_brevity_terms: the /reloadterms handler and the loop
\* refresh_terms_daily, which interleave at their awaits.
Refreshers == {"reloadterms", "refresh_terms_daily"}
IdleUpd == [pc |-> "idle", status |-> 0, new_terms |-> <<>>,
            existing_raw |-> <<>>, added |-> 0, updated |-> 0,
            unchanged |-> 0]

\* ------------------------------------------------- get_next_brevity_term
\* unused_terms = [t for t in all_terms if t["term"] not in used_terms]
\* (a variant that filters nothing out comes first)
UnusedTermsMissesUsed(all, usedset) == all
UnusedTerms(all, usedset) == SelectSeq(all, LAMBDA t : t.term \notin usedset)

\* all_terms = await get_all_terms(); None (chosen = <<>>) when the catalog
\* is empty.  A returned term t is held as <<t>>.
GetAllTerms(c) ==
    /\ call[c].pc = "get_all"
    /\ call' = [call EXCEPT ![c] =
                  IF terms = <<>>
                  THEN [@ EXCEPT !.pc = "done", !.chosen = <<>>]
                  ELSE [@ EXCEPT !.pc = "load_used", !.all_terms = terms]]
    /\ UNCHANGED <<terms, terms_backup, used, upd, returned, budget, schedVars, quizVars, moreVars>>

\* used_terms = await load_used_terms(guild_id), then the filter.
LoadUsedTerms(c) ==
    /\ call[c].pc = "load_used"
    /\ LET unused == UnusedTerms(call[c].all_terms, used[call[c].guild])
       IN call' = [call EXCEPT ![c] =
                     [@ EXCEPT !.pc = IF unused = <<>> THEN "reset" ELSE "save",
                               !.unused_terms = unused]]
    /\ UNCHANGED <<terms, terms_backup, used, upd, returned, budget, schedVars, quizVars, moreVars>>

\* await r.delete(used_terms:<guild>); unused_terms = all_terms
ResetUsedTerms(c) ==
    /\ call[c].pc = "reset"
    /\ used' = [used EXCEPT ![call[c].guild] = {}]
    /\ call' = [call EXCEPT ![c] =
                  [@ EXCEPT !.pc = "save", !.was_reset = TRUE,
                            !.unused_terms = call[c].all_terms]]
    /\ UNCHANGED <<terms, terms_backup, upd, returned, budget, schedVars, quizVars, moreVars>>

\* chosen = random.choice(unused_terms); await save_used_term(...)
\* (first a variant that adds nothing)
UsedAfterSaveForgets(usedset, key) == usedset
UsedAfterSave(usedset, key) == usedset \cup {key}

SaveUsedTerm(c) ==
    /\ call[c].pc = "save"
    /\ \E i \in 1..Len(call[c].unused_terms) :
         LET chosen == call[c].unused_terms[i]
         IN /\ used' = [used EXCEPT ![call[c].guild] =
                          UsedAfterSave(@, chosen.term)]
            /\ call' = [call EXCEPT ![c] =
                          [@ EXCEPT !.pc = "done", !.chosen = <<chosen>>]]
    /\ UNCHANGED <<terms, terms_backup, upd, returned, budget, schedVars, quizVars, moreVars>>

\* ---------------------------------------------------------------- /nextterm
\* defer, then term = await get_next_brevity_term(interaction.guild.id)
NexttermStart(c, g, limit) ==
    /\ call[c].pc = "idle"
    /\ budget.invocations < limit
    /\ budget' = [budget EXCEPT !.invocations = @ + 1]
    /\ call' = [call EXCEPT ![c] = [IdleCall EXCEPT !.pc = "get_all", !.guild = g]]
    /\ UNCHANGED <<terms, terms_backup, used, upd, returned, schedVars, quizVars, moreVars>>

\* "No terms available." or the embed of the term; the handler returns.
NexttermReply(c) ==
    /\ call[c].pc = "done"
    /\ returned' = [returned EXCEPT ![call[c].guild] =
                      IF call[c].chosen = <<>> THEN @
                      ELSE Append(@, call[c].chosen[1].term)]
    /\ call' = [call EXCEPT ![c] = IdleCall]
    /\ UNCHANGED <<terms, terms_backup, used, upd, budget, schedVars, quizVars, moreVars>>

\* ------------------------------------------------------ update_brevity_terms
\* What session.get(url) may do: raise (timeout, connection error), or answer
\* with a status and a body; page is what the <dt>/<dd> walk makes of the
\* body (<<>>: no content container, or no term in it).  Status 0 stands
\* for None; statuses are the ones the server answers with in a run.
HttpStatuses == {200, 403, 503}
FetchOutcomes(statuses) ==
    [raised : {TRUE}, status : {0}, page : {<<>>}]
        \cup [raised : {FALSE}, status : statuses,
              page : ParsedPages(MaxPage)]

\* parse_brevity_terms: a fetch that raises returns []; a 403 is retried once
\* with a browser User-Agent; any other status is logged and the body is
\* parsed all the same.
ParseBrevityTerms(first, retry) ==
    IF first.raised THEN [status |-> 0, terms |-> <<>>]
    ELSE IF first.status = 403
         THEN IF retry.raised THEN [status |-> 403, terms |-> <<>>]
              ELSE [status |-> retry.status, terms |-> retry.page]
         ELSE [status |-> first.status, terms |-> first.page]

\* new_terms = await parse_brevity_terms(); nothing parsed keeps the catalog.
UpdateParse(r, limit, statuses) ==
    /\ upd[r].pc = "idle"
    /\ budget.refreshes < limit
    /\ budget' = [budget EXCEPT !.refreshes = @ + 1]
    /\ \E first \in FetchOutcomes(statuses) :
       \E retry \in IF first.status = 403 THEN FetchOutcomes(statuses)
                    ELSE {first} :
         LET parsed == ParseBrevityTerms(first, retry)
         IN  upd' = [upd EXCEPT ![r] =
                       IF parsed.terms = <<>> THEN IdleUpd
                       ELSE [IdleUpd EXCEPT !.pc = "load_existing",
                                            !.status = parsed.status,
                                            !.new_terms = parsed.terms]]
    /\ UNCHANGED <<terms, terms_backup, used, call, returned, schedVars, quizVars, moreVars>>

\* existing_terms_dict = {term['term']: term for term in existing_terms}: a
\* key that occurs twice keeps its last entry.  The keys of a dict are
\* compared as strings, letter case included.
ExistingTermsDict(existing) ==
    [k \in KeysOf(existing) |->
        existing[CHOOSE i \in 1..Len(existing) :
                    /\ existing[i].term = k
                    /\ \A j \in (i + 1)..Len(existing) : existing[j].term # k]]

\* added_terms, updated_terms and unchanged_terms: the positions of new_terms
\* each list comprehension keeps.
AddedTerms(new_terms, existing) ==
    {i \in 1..Len(new_terms) :
        new_terms[i].term \notin DOMAIN ExistingTermsDict(existing)}
UpdatedTerms(new_terms, existing) ==
    {i \in 1..Len(new_terms) :
        /\ new_terms[i].term \in DOMAIN ExistingTermsDict(existing)
        /\ new_terms[i] # ExistingTermsDict(existing)[new_terms[i].term]}
UnchangedTerms(new_terms, existing) ==
    {i \in 1..Len(new_terms) :
        /\ new_terms[i].term \in DOMAIN ExistingTermsDict(existing)
        /\ new_terms[i] = ExistingTermsDict(existing)[new_terms[i].term]}

\* existing_raw = await r.get(TERMS_KEY), and the comparison that follows it
UpdateLoadExisting(r) ==
    /\ upd[r].pc = "load_existing"
    /\ upd' = [upd EXCEPT
                 ![r].existing_raw = terms,
                 ![r].added = Cardinality(AddedTerms(upd[r].new_terms, terms)),
                 ![r].updated = Cardinality(UpdatedTerms(upd[r].new_terms, terms)),
                 ![r].unchanged =
                     Cardinality(UnchangedTerms(upd[r].new_terms, terms)),
                 ![r].pc = IF terms = <<>> THEN "store" ELSE "backup"]
    /\ UNCHANGED <<terms, terms_backup, used, call, returned, budget, schedVars, quizVars, moreVars>>

\* if existing_raw: await r.set(TERMS_KEY_backup, existing_raw)
UpdateBackup(r) ==
    /\ upd[r].pc = "backup"
    /\ terms_backup' = upd[r].existing_raw
    /\ upd' = [upd EXCEPT ![r].pc = "store"]
    /\ UNCHANGED <<terms, used, call, returned, budget, schedVars, quizVars, moreVars>>

\* await r.set(TERMS_KEY, json.dumps(new_terms))
UpdateStore(r) ==
    /\ upd[r].pc = "store"
    /\ terms' = upd[r].new_terms
    /\ upd' = [upd EXCEPT ![r] = IdleUpd]
    /\ UNCHANGED <<terms_backup, used, call, returned, budget, schedVars, quizVars, moreVars>>

\* ------------------------------------------------------------ the scheduler
\* Time is counted in units of 150 seconds, half the period of the loop.
Hour == 24
Window == 2
TickEvery == 2
DefaultFreq == 24

ChannelOf(g) == 100 + g

IdleTick == [pc |-> "idle", ran_at |-> -1, runs |-> 0, all_configs |-> <<>>, todo |-> {},
             guild |-> 0, freq_hours |-> 0, next_post_time |-> 0,
             current_time |-> 0, term |-> <<>>, visited |-> <<>>, outside |-> {},
             errors |-> {}, erred |-> FALSE, off |-> {}]
\* The last five fields are history: the guilds this run has taken up, those
\* it passed over as outside their window, those it failed on, whether an
\* earlier run failed on a guild, and the guilds that were off (see `off`)
\* when this run started and have not been enabled since.

\* `continue`: on to the next guild of all_configs.items().
Continue(t) == [t EXCEPT !.pc = "loop", !.guild = 0, !.freq_hours = 0,
                         !.next_post_time = 0, !.current_time = 0,
                         !.term = <<>>]

\* except Exception as e: logger.error(...); the for loop goes on.
\* (first a variant in which the exception leaves the loop)
AfterErrorLoopStops(t, g) == [t EXCEPT !.pc = "stopped", !.errors = @ \cup {g}]
AfterError(t, g) == Continue([t EXCEPT !.errors = @ \cup {g}])

\* `continue` after a failure: the channel was not found, or no term came.
\* (first a variant that takes the guild up again in the same run)
SkipGuildTriesAgain(t, g) ==
    [Continue([t EXCEPT !.errors = @ \cup {g}]) EXCEPT !.todo = @ \cup {g}]
SkipGuild(t, g) == Continue([t EXCEPT !.errors = @ \cup {g}])

\* int(await r.get(post_freq:<guild>) or 24)
get_post_frequency(g) == IF post_freq[g] = NoValue THEN DefaultFreq ELSE post_freq[g]

\* float(ts) if ts else 0.0
get_last_posted(g) == IF last_posted[g] = NoValue THEN 0 ELSE last_posted[g]

\* not (current_time < next_post_time - 300 or current_time > next_post_time + 300)
\* (first a variant with no upper edge, and one that is true at the due
\* time only)
InWindowNoUpperEdge(t, due) == ~(t < due - Window)
InWindowOnlyWhenDue(t, due) == t = due
InWindow(t, due) == ~(t < due - Window \/ t > due + Window)

\* all_configs = await load_config(): the loop body starts every 5 minutes.
LoadConfig(runs) ==
    LET configured == {g \in Guilds : post_channels[g] # NoValue}
    IN [IdleTick EXCEPT
          !.pc = "loop", !.ran_at = now, !.runs = runs,
          !.all_configs = [g \in configured |-> post_channels[g]],
          !.todo = configured, !.erred = tick.erred,
          !.off = off]

TickStart ==
    /\ tick.pc = "idle"
    /\ tick.ran_at < now
    /\ tick.runs < MaxRuns
    /\ tick' = LoadConfig(tick.runs + 1)
    /\ UNCHANGED <<rotVars, budget, post_channels, post_freq, last_posted,
                   disabled_posting, now, reachable, handler, posts, off, quizVars, moreVars>>

\* not await r.sismember(DISABLED_GUILDS_KEY, str(guild_id))
\* (first a variant that never reads the set)
is_posting_enabledIgnoresStore(g) == TRUE
is_posting_enabled(g) == g \notin disabled_posting

\* if not await is_posting_enabled(guild_id): continue
TickIsPostingEnabled(g) ==
    /\ tick.pc = "loop"
    /\ g \in tick.todo
    /\ LET t == [tick EXCEPT !.todo = @ \ {g}, !.visited = Append(@, g)]
       IN tick' = IF ~is_posting_enabled(g) THEN Continue(t)
                  ELSE [t EXCEPT !.pc = "get_freq", !.guild = g]
    /\ UNCHANGED <<rotVars, budget, post_channels, post_freq, last_posted,
                   disabled_posting, now, reachable, handler, posts, off, quizVars, moreVars>>

\* freq_hours = await get_post_frequency(guild_id)
TickGetFrequency ==
    /\ tick.pc = "get_freq"
    /\ tick' = [tick EXCEPT !.pc = "get_last",
                            !.freq_hours = get_post_frequency(tick.guild)]
    /\ UNCHANGED <<rotVars, budget, post_channels, post_freq, last_posted,
                   disabled_posting, now, reachable, handler, posts, off, quizVars, moreVars>>

\* last_posted = await get_last_posted(guild_id); the window test; then
\* channel = client.get_channel(config["channel_id"])
TickGetLastPosted ==
    /\ tick.pc = "get_last"
    /\ LET g == tick.guild
           due == get_last_posted(g) + tick.freq_hours * Hour
           t == [tick EXCEPT !.next_post_time = due, !.current_time = now]
       IN IF ~InWindow(now, due)
          THEN /\ tick' = Continue([t EXCEPT !.outside = @ \cup {g}])
               /\ call' = call
          ELSE IF tick.all_configs[g] \notin reachable
          THEN /\ tick' = [t EXCEPT !.pc = "remove_stale"]
               /\ call' = call
          ELSE /\ tick' = [t EXCEPT !.pc = "next_term"]
               /\ call' = [call EXCEPT ![TickCaller] =
                             [IdleCall EXCEPT !.pc = "get_all", !.guild = g]]
    /\ UNCHANGED <<terms, terms_backup, used, upd, returned, budget,
                   post_channels, post_freq, last_posted, disabled_posting,
                   now, reachable, handler, posts, off, quizVars, moreVars>>

\* await r.hdel(CHANNEL_MAP_KEY, str(guild_id)); continue
TickRemoveStale ==
    /\ tick.pc = "remove_stale"
    /\ post_channels' = [post_channels EXCEPT ![tick.guild] = NoValue]
    /\ tick' = SkipGuild(tick, tick.guild)
    /\ UNCHANGED <<rotVars, budget, post_freq, last_posted, disabled_posting,
                   now, reachable, handler, posts, off, quizVars, moreVars>>

\* term = await get_next_brevity_term(guild_id) has returned; the image is
\* fetched (no state of the bot changes) and the embed is built.
TickGotTerm ==
    /\ tick.pc = "next_term"
    /\ call[TickCaller].pc = "done"
    /\ tick' = IF call[TickCaller].chosen = <<>>
               THEN SkipGuild(tick, tick.guild)
               ELSE [tick EXCEPT !.pc = "send",
                                 !.term = call[TickCaller].chosen]
    /\ call' = [call EXCEPT ![TickCaller] = IdleCall]
    /\ UNCHANGED <<terms, terms_backup, used, upd, returned, budget,
                   schedVarsButTick, quizVars, moreVars>>

\* await channel.send(embed=embed) delivers the post
TickSendOk ==
    /\ tick.pc = "send"
    /\ tick.all_configs[tick.guild] \in reachable
    /\ posts' = posts \cup {[guild |-> tick.guild, due |-> tick.next_post_time,
                             at |-> now, term |-> tick.term[1].term]}
    /\ tick' = [tick EXCEPT !.pc = "set_last"]
    /\ UNCHANGED <<rotVars, budget, post_channels, post_freq, last_posted,
                   disabled_posting, now, reachable, handler, off, quizVars, moreVars>>

\* await channel.send(embed=embed) raises: caught by the loop's except
TickSendRaises ==
    /\ tick.pc = "send"
    /\ tick' = AfterError(tick, tick.guild)
    /\ UNCHANGED <<rotVars, budget, post_channels, post_freq, last_posted,
                   disabled_posting, now, reachable, handler, posts, off, quizVars, moreVars>>

\* await set_last_posted(guild_id, time.time())
\* (first a variant that writes nothing)
LastPostedAfterPostKeepsOld(old, t) == old
LastPostedAfterPost(old, t) == t

TickSetLastPosted ==
    /\ tick.pc = "set_last"
    /\ last_posted' = [last_posted EXCEPT ![tick.guild] =
                         LastPostedAfterPost(@, now)]
    /\ tick' = Continue(tick)
    /\ UNCHANGED <<rotVars, budget, post_channels, post_freq,
                   disabled_posting, now, reachable, handler, posts, off, quizVars, moreVars>>

\* the for loop is exhausted; the loop sleeps until the next period
TickEnd ==
    /\ tick.pc = "loop"
    /\ tick.todo = {}
    /\ tick' = [IdleTick EXCEPT !.ran_at = tick.ran_at, !.runs = tick.runs,
                                !.erred = tick.erred \/ tick.errors # {}]
    /\ UNCHANGED <<rotVars, budget, post_channels, post_freq, last_posted,
                   disabled_posting, now, reachable, handler, posts, off, quizVars, moreVars>>

\* Five minutes pass between one run of the loop body and the next; or the
\* process is down for a while and the loop resumes when it is back.
Downtime == Hour - 2 * Window
Pauses == {TickEvery, Downtime}

Advance(pause) ==
    /\ tick.pc = "idle"
    /\ tick.ran_at = now
    /\ tick.runs < MaxRuns
    /\ now' = now + pause
    /\ UNCHANGED <<rotVars, budget, post_channels, post_freq, last_posted,
                   disabled_posting, reachable, tick, handler, posts, off, quizVars, moreVars>>

\* ------------------------------------------------- commands and guild events
Spend == budget' = [budget EXCEPT !.commands = @ + 1]
MayCommand == budget.commands < MaxCommands

\* /setup: await save_config(guild, channel) ...  (a removed guild is back
\* from here on; a disabled one stays off until enable_posting below)
Setup(g) ==
    /\ MayCommand /\ Spend
    /\ handler[g] = "idle"
    /\ post_channels' = [post_channels EXCEPT ![g] = ChannelOf(g)]
    /\ reachable' = reachable \cup {ChannelOf(g)}
    /\ handler' = [handler EXCEPT ![g] = "setup_enable"]
    /\ off' = IF g \in disabled_posting THEN off ELSE off \ {g}
    /\ tick' = IF g \in disabled_posting THEN tick
               ELSE [tick EXCEPT !.off = @ \ {g}]
    /\ UNCHANGED <<rotVars, post_freq, last_posted, disabled_posting, now, posts, quizVars, moreVars>>

\* ... then await enable_posting(guild)
SetupEnablePosting(g) ==
    /\ handler[g] = "setup_enable"
    /\ disabled_posting' = disabled_posting \ {g}
    /\ handler' = [handler EXCEPT ![g] = "idle"]
    /\ off' = off \ {g}
    /\ tick' = [tick EXCEPT !.off = @ \ {g}]
    /\ UNCHANGED <<rotVars, budget, post_channels, post_freq, last_posted, now,
                   reachable, posts, quizVars, moreVars>>

\* /disableposting: await disable_posting(guild)
DisablePosting(g) ==
    /\ MayCommand /\ Spend
    /\ disabled_posting' = disabled_posting \cup {g}
    /\ off' = off \cup {g}
    /\ UNCHANGED <<rotVars, post_channels, post_freq, last_posted, now,
                   reachable, tick, handler, posts, quizVars, moreVars>>

\* /enableposting: await enable_posting(guild)
EnablePosting(g) ==
    /\ MayCommand /\ Spend
    /\ disabled_posting' = disabled_posting \ {g}
    /\ off' = off \ {g}
    /\ tick' = [tick EXCEPT !.off = @ \ {g}]
    /\ UNCHANGED <<rotVars, post_channels, post_freq, last_posted, now,
                   reachable, handler, posts, quizVars, moreVars>>

\* /setfrequency hours: rejected unless hours > 0
FrequencyInputs == {0, 1}

\* if hours <= 0: "Frequency must be a positive integer."; return
\* (first a variant that lets 0 through)
HoursRejectedBelowZeroOnly(hours) == hours < 0
HoursRejected(hours) == hours <= 0

SetFrequency(g, hours) ==
    /\ MayCommand /\ Spend
    /\ post_freq' = IF HoursRejected(hours) THEN post_freq
                    ELSE [post_freq EXCEPT ![g] = hours]
    /\ UNCHANGED <<rotVars, post_channels, last_posted, disabled_posting, now,
                   reachable, tick, handler, posts, off, quizVars, moreVars>>

\* The configured channel is deleted, or hidden from the bot.
ChannelLost(g) ==
    /\ MayCommand /\ Spend
    /\ ChannelOf(g) \in reachable
    /\ reachable' = reachable \ {ChannelOf(g)}
    /\ UNCHANGED <<rotVars, post_channels, post_freq, last_posted,
                   disabled_posting, now, tick, handler, posts, off, quizVars, moreVars>>

\* The bot is removed from a guild: the guild and its channels leave the
\* client's cache.  on_guild_remove is defined below client.run(), which
\* blocks: started as a script the handler is never registered, and the
\* store keeps the guild's keys; with the module imported and the client
\* started by the importer, the handler runs:
\* await r.hdel(CHANNEL_MAP_KEY, guild) ...
GuildRemove(g, registered) ==
    /\ MayCommand /\ Spend
    /\ handler[g] = "idle"
    /\ reachable' = reachable \ {ChannelOf(g)}
    /\ off' = off \cup {g}
    /\ IF registered
       THEN /\ post_channels' = [post_channels EXCEPT ![g] = NoValue]
            /\ handler' = [handler EXCEPT ![g] = "rm_used"]
       ELSE UNCHANGED <<post_channels, handler>>
    /\ UNCHANGED <<rotVars, post_freq, last_posted, disabled_posting, now,
                   tick, posts, quizVars, moreVars>>

\* ... await r.delete(used_terms:<guild>) ...
RemoveUsed(g) ==
    /\ handler[g] = "rm_used"
    /\ used' = [used EXCEPT ![g] = {}]
    /\ handler' = [handler EXCEPT ![g] = "rm_freq"]
    /\ UNCHANGED <<terms, terms_backup, call, upd, returned, budget,
                   post_channels, post_freq, last_posted, disabled_posting, now,
                   reachable, tick, posts, off, quizVars, moreVars>>

\* ... await r.delete(post_freq:<guild>) ...
RemoveFreq(g) ==
    /\ handler[g] = "rm_freq"
    /\ post_freq' = [post_freq EXCEPT ![g] = NoValue]
    /\ handler' = [handler EXCEPT ![g] = "rm_last"]
    /\ UNCHANGED <<rotVars, budget, post_channels, last_posted,
                   disabled_posting, now, reachable, tick, posts, off, quizVars, moreVars>>

\* ... await r.delete(last_posted:<guild>) ...
RemoveLast(g) ==
    /\ handler[g] = "rm_last"
    /\ last_posted' = [last_posted EXCEPT ![g] = NoValue]
    /\ handler' = [handler EXCEPT ![g] = "rm_disabled"]
    /\ UNCHANGED <<rotVars, budget, post_channels, post_freq,
                   disabled_posting, now, reachable, tick, posts, off, quizVars, moreVars>>

\* ... await r.srem(DISABLED_GUILDS_KEY, guild): the guild is removed.
RemoveDisabled(g) ==
    /\ handler[g] = "rm_disabled"
    /\ disabled_posting' = disabled_posting \ {g}
    /\ handler' = [handler EXCEPT ![g] = "idle"]
    /\ UNCHANGED <<rotVars, budget, post_channels, post_freq, last_posted, now,
                   reachable, tick, posts, off, quizVars, moreVars>>

\* ------------------------------------------------------------------ the quiz
\* `if max_questions < 4`, random.sample(incorrect_terms, 3), the four
\* buttons, r.ltrim(key, 0, 9), and the timeout=60 of a private view.
MinTerms == 4
Distractors == 3
Buttons == 4
ScoreCap == 10
PrivateTimeout == 1

Users == {1, 2}
\* interaction.guild_id and interaction.user.id of the /quiz invocations
QuizGuild == 1
Initiator == 1
\* Frames of /quiz.
Sessions == {1, 2}
\* The arguments of /quiz, and the buttons users press.
QuestionInputs == {0, 1, 2, 6}
ModeInputs == {"private", "public"}
DurationInputs == {1, 2}
AnswerInputs == {0, 1}
\* Question indexes of the longest quiz these inputs allow.
QuestionIdx == {0, 1}

\* quiz_id = f"{guild_id}-{user.id}-{int(time.time())}"
SecondsPerMinute == 2
QuizIdOf(guild, user, t) == <<guild, user, t>>
QuizIds == {QuizIdOf(QuizGuild, Initiator, t) :
               t \in 0..((MaxClock + 2) * SecondsPerMinute)}

IdleQuiz ==
    [pc |-> "idle", questions |-> 0, mode |-> "", duration |-> 0,
     outcome |-> "none", all_terms |-> <<>>, quiz_terms |-> <<>>,
     \* public mode
     used_options |-> <<>>, quiz_id |-> <<>>, correct_indices |-> <<>>,
     posted |-> 0, deadline |-> <<>>, close_at |-> 0,
     \* close_and_summarize
     i |-> 0, user_correct |-> <<>>, user_participation |-> {}, uid |-> 0,
     leaderboard |-> <<>>,
     \* private mode
     asked |-> <<>>, inflight |-> <<>>, score |-> 0, reported |-> NoValue,
     \* history
     clicker |-> 0, latest |-> <<>>, closed_votes |-> <<>>, tallied |-> <<>>, pre |-> <<>>,
     entries |-> {}, revised |-> {},
     \* the board of the summary
     bpc |-> "none", keys |-> <<>>, user_greenies |-> <<>>, board |-> <<>>]
\* History fields: clicker is the user of the last click on a view of a
\* private quiz; latest[q + 1][u] is the button of the last handle_vote of
\* user u on question q, the one "You selected ..." told the user of
\* (NoValue: none); closed_votes are the answer hashes
\* at the moment the duration timer fired; tallied are the hashes as the
\* summary read them; pre is the score list before the lpush in progress;
\* entries are the <<user, entry>> pairs the summary has pushed; revised are
\* the <<question, user>> whose stored selection a later vote replaced by
\* another one.

\* ----- a Redis hash, kept as the sequence of its <<field, value>> pairs in
\* the order HGETALL returns them: the order in which the fields were created.
HashFields(h) == {h[k][1] : k \in DOMAIN h}
HashGet(h, field) ==
    IF field \in HashFields(h)
    THEN h[CHOOSE k \in DOMAIN h : h[k][1] = field][2]
    ELSE NoValue
\* (first three variants: one keeps the value a field has, one drops the
\* other fields, one adds a pair for every write)
HashSetAppends(h, field, value) == Append(h, <<field, value>>)
HashSetKeepsOld(h, field, value) ==
    IF field \in HashFields(h) THEN h ELSE Append(h, <<field, value>>)
HashSetDropsOthers(h, field, value) == <<<<field, value>>>>
HashSet(h, field, value) ==
    IF field \in HashFields(h)
    THEN [k \in DOMAIN h |-> IF h[k][1] = field THEN <<field, value>> ELSE h[k]]
    ELSE Append(h, <<field, value>>)

\* ----- building a question
\* random.sample(all_terms, questions): positions of the list, no repeats
SampleTerms(all, n) ==
    {qs \in [1..n -> DOMAIN all] : \A a, b \in 1..n : a # b => qs[a] # qs[b]}

\* incorrect_terms = [t for t in all_terms if t["term"] != correct_term]
IncorrectTerms(all, p) == {k \in DOMAIN all : all[k].term # all[p].term}

\* random.sample(incorrect_terms, 3) raises ValueError on a shorter list
SampleRaises(all, p) == Cardinality(IncorrectTerms(all, p)) < Distractors

\* The three sampled terms, then the correct one, shuffled: every order of
\* the correct position and three distinct positions of incorrect_terms.
QuestionOptions(all, p) ==
    LET from == IncorrectTerms(all, p) \cup {p}
        orders == {o \in [1..Buttons -> from] :
                      /\ \A a, b \in 1..Buttons : a # b => o[a] # o[b]
                      /\ \E a \in 1..Buttons : o[a] = p}
    IN {[k \in 1..Buttons |->
            [term |-> all[o[k]].term, is_correct |-> (o[k] = p)]] : o \in orders}

\* correct_idx = next(i for i, o in enumerate(options) if o["is_correct"])
CorrectIdx(options) ==
    (CHOOSE k \in 1..Len(options) :
        /\ options[k].is_correct
        /\ \A j \in 1..(k - 1) : ~options[j].is_correct) - 1

\* The options of all questions of a public quiz, built in one loop.
RECURSIVE BuildQuestions(_, _)
BuildQuestions(all, qs) ==
    IF qs = <<>> THEN {<<>>}
    ELSE {<<o>> \o rest : o \in QuestionOptions(all, Head(qs)),
                          rest \in BuildQuestions(all, Tail(qs))}

\* ----- /quiz
\* The command is invoked: all_terms = await get_all_terms()
QuizStart(s, questions, mode, duration) ==
    /\ quiz[s].pc = "idle"
    /\ quiz' = [quiz EXCEPT ![s] =
                  [IdleQuiz EXCEPT !.pc = "get_terms", !.questions = questions,
                                   !.mode = mode, !.duration = duration]]
    /\ UNCHANGED <<rotVars, budget, schedVars, clock, answers, greenie, moreVars>>

\* A view with its question is sent privately: ask_question(q_idx), up to
\* its send.  ValueError of the sample ends the task that called it.
AskQuestion(f, q_idx) ==
    LET p == f.quiz_terms[q_idx + 1]
    IN IF SampleRaises(f.all_terms, p)
       THEN {[f EXCEPT !.outcome = "raised"]}
       ELSE {[f EXCEPT !.asked = Append(@, [q_idx |-> q_idx, options |-> o,
                                             stopped |-> FALSE,
                                             deadline |-> clock + PrivateTimeout])] :
                o \in QuestionOptions(f.all_terms, p)}

\* if questions < 1 or questions > max_questions
\* (first a variant without the upper edge)
OutOfRangeNoUpperEdge(questions, max_questions) == questions < 1
OutOfRange(questions, max_questions) ==
    questions < 1 \/ questions > max_questions

\* int(time.time()) when quiz_id is made.  The clock counts minutes, and a
\* minute has SecondsPerMinute seconds that an id can tell apart.  A session
\* whose id is the first of its minute is taken to start at the minute's
\* first second; one that follows in the same minute starts in the same
\* second as the one before it, or in a later one.
TimeNow(s) ==
    LET first == clock * SecondsPerMinute
        sofar == {quiz[o].quiz_id[3] :
                    o \in {x \in Sessions \ {s} :
                             /\ quiz[x].quiz_id # <<>>
                             /\ quiz[x].quiz_id[3] >= first}}
    IN  IF sofar = {} THEN {first}
        ELSE {t \in first..(first + SecondsPerMinute - 1) :
                \A x \in sofar : t >= x}

\* The two checks; quiz_terms = random.sample(all_terms, questions); then
\* private mode asks question 0, and public mode builds every question.
QuizGetAllTerms(s) ==
    /\ quiz[s].pc = "get_terms"
    /\ LET f == quiz[s]
           all == terms
       IN IF Len(all) < MinTerms
          THEN quiz' = [quiz EXCEPT ![s] = [f EXCEPT !.pc = "rejected",
                                                     !.outcome = "insufficient"]]
          ELSE IF OutOfRange(f.questions, Len(all))
          THEN quiz' = [quiz EXCEPT ![s] = [f EXCEPT !.pc = "rejected",
                                                     !.outcome = "range"]]
          ELSE IF f.questions < 0 \/ f.questions > Len(all)
          THEN \* random.sample raises ValueError
               quiz' = [quiz EXCEPT ![s] = [f EXCEPT !.pc = "raised",
                                                     !.outcome = "raised"]]
          ELSE \E qs \in SampleTerms(all, f.questions) :
                 LET g == [f EXCEPT !.all_terms = all, !.quiz_terms = qs]
                 IN IF f.mode = "private"
                    THEN \E h \in AskQuestion(g, 0) :
                           quiz' = [quiz EXCEPT ![s] =
                                      [h EXCEPT !.pc = IF h.outcome = "raised"
                                                       THEN "raised" ELSE "private"]]
                    ELSE IF \E k \in 1..Len(qs) : SampleRaises(all, qs[k])
                    THEN quiz' = [quiz EXCEPT ![s] = [g EXCEPT !.pc = "raised",
                                                               !.outcome = "raised"]]
                    ELSE \E os \in BuildQuestions(all, qs),
                            id \in {QuizIdOf(QuizGuild, Initiator, t) :
                                       t \in TimeNow(s)} :
                           quiz' = [quiz EXCEPT ![s] =
                              [g EXCEPT !.pc = "announce",
                                        !.used_options = os,
                                        !.quiz_id = id,
                                        !.correct_indices =
                                            [k \in 1..Len(os) |-> CorrectIdx(os[k])]]]
    /\ UNCHANGED <<rotVars, budget, schedVars, clock, answers, greenie, moreVars>>

\* ----- private mode: QuizView.handle_answer
\* A click on a button of the view of asked[v], up to the await of its reply:
\* another user is turned away; the initiator's answer is scored.
\* if interaction_btn.user.id != interaction.user.id: "This quiz is not for
\* you!"; return
\* (first a variant that turns nobody away)
OtherUserNever(u) == FALSE
OtherUser(u) == u # Initiator

PrivateClick(s, v, u, idx) ==
    /\ v \in DOMAIN quiz[s].asked
    /\ ~quiz[s].asked[v].stopped
    /\ clock < quiz[s].asked[v].deadline
    /\ budget.clicks < MaxClicks
    /\ budget' = [budget EXCEPT !.clicks = @ + 1]
    /\ LET f == [quiz[s] EXCEPT !.asked[v].deadline = clock + PrivateTimeout,
                              !.clicker = u]
       IN quiz' = [quiz EXCEPT ![s] =
                     IF OtherUser(u) THEN f
                     ELSE [f EXCEPT !.inflight = Append(@, v),
                                    !.score = IF f.asked[v].options[idx + 1].is_correct
                                              THEN @ + 1 ELSE @]]
    /\ UNCHANGED <<rotVars, schedVars, clock, answers, greenie, moreVars>>

\* The reply is sent: self.stop(), after which the view and its options are
\* gone; then the next question is asked or the result is reported.
PrivateAnswered(s, k) ==
    /\ k \in DOMAIN quiz[s].inflight
    /\ LET v == quiz[s].inflight[k]
           q_idx == quiz[s].asked[v].q_idx
           f == [quiz[s] EXCEPT
                   !.inflight = SubSeq(@, 1, k - 1) \o SubSeq(@, k + 1, Len(@)),
                   !.asked[v] = [@ EXCEPT !.stopped = TRUE, !.options = <<>>]]
       IN IF q_idx + 1 < f.questions
          THEN \E h \in AskQuestion(f, q_idx + 1) :
                 quiz' = [quiz EXCEPT ![s] = h]
          ELSE quiz' = [quiz EXCEPT ![s] = [f EXCEPT !.pc = "complete",
                                                     !.reported = f.score]]
    /\ UNCHANGED <<rotVars, budget, schedVars, clock, answers, greenie, moreVars>>

\* ----- public mode
\* The start embed is sent.  From here on the terms and the option texts are
\* only displayed; the frame keeps the correct indexes.
QuizAnnounce(s) ==
    /\ quiz[s].pc = "announce"
    /\ quiz' = [quiz EXCEPT ![s] = [@ EXCEPT !.pc = "post", !.all_terms = <<>>,
                                             !.quiz_terms = <<>>,
                                             !.used_options = <<>>]]
    /\ UNCHANGED <<rotVars, budget, schedVars, clock, answers, greenie, moreVars>>

\* Neither the response nor the followup can be sent: return
QuizAnnounceRaises(s) ==
    /\ quiz[s].pc = "announce"
    /\ quiz' = [quiz EXCEPT ![s] = [@ EXCEPT !.pc = "returned",
                                             !.outcome = "announce_failed"]]
    /\ UNCHANGED <<rotVars, budget, schedVars, clock, answers, greenie, moreVars>>

\* The posting loop `for idx, (embed, view) in enumerate(zip(embeds, views))`
\* ends when every question has been posted.
\* (first a variant that ends the loop after the first question)
LoopDoneAfterFirst(posted, questions) == posted >= 1
LoopDone(posted, questions) == posted = questions

\* msg = await interaction.followup.send(embed=embed, view=view): the view
\* listens for timeout=duration*60.  After the last one,
\* asyncio.create_task(close_and_summarize()), which sleeps for the duration.
QuizPost(s) ==
    /\ quiz[s].pc = "post"
    /\ LET f == [quiz[s] EXCEPT
                   !.posted = @ + 1,
                   !.deadline = Append(@, clock + quiz[s].duration),
                   !.latest = Append(@, [u \in Users |-> NoValue])]
       IN quiz' = [quiz EXCEPT ![s] =
                     IF LoopDone(f.posted, f.questions)
                     THEN [f EXCEPT !.pc = "open", !.close_at = clock + f.duration]
                     ELSE f]
    /\ UNCHANGED <<rotVars, budget, schedVars, clock, answers, greenie, moreVars>>

\* followup.send raises: the user is told, and the command returns
QuizPostRaises(s) ==
    /\ quiz[s].pc = "post"
    /\ quiz' = [quiz EXCEPT ![s] = [@ EXCEPT !.pc = "returned",
                                             !.outcome = "post_failed"]]
    /\ UNCHANGED <<rotVars, budget, schedVars, clock, answers, greenie, moreVars>>

\* PublicQuizView.handle_vote on the view of question q, which listens until
\* its timeout has passed since it was sent or last used:
\* await redis_conn.hset(quiz:<id>:answers:<q>, user_id, answer_idx)
HandleVote(s, q, u, idx) ==
    /\ q < quiz[s].posted
    /\ clock < quiz[s].deadline[q + 1]
    /\ budget.votes < MaxVotes
    /\ budget' = [budget EXCEPT !.votes = @ + 1]
    /\ answers' = [answers EXCEPT ![quiz[s].quiz_id][q] = HashSet(@, u, idx)]
    /\ quiz' = [quiz EXCEPT ![s] =
                  [@ EXCEPT !.deadline[q + 1] = clock + quiz[s].duration,
                            !.latest[q + 1][u] = idx,
                            !.revised =
                                IF quiz[s].latest[q + 1][u] \notin {NoValue, idx}
                                THEN @ \cup {<<q, u>>} ELSE @]]
    /\ UNCHANGED <<rotVars, schedVars, clock, greenie, moreVars>>

\* The same click when hset raises (the store is unreachable, the connection
\* is reset): the exception is logged, and "You selected ..." is sent all the
\* same.
HandleVoteRaises(s, q, u, idx) ==
    /\ q < quiz[s].posted
    /\ clock < quiz[s].deadline[q + 1]
    /\ budget.votes < MaxVotes
    /\ budget' = [budget EXCEPT !.votes = @ + 1]
    /\ quiz' = [quiz EXCEPT ![s] =
                  [@ EXCEPT !.deadline[q + 1] = clock + quiz[s].duration,
                            !.latest[q + 1][u] = idx]]
    /\ UNCHANGED <<rotVars, schedVars, clock, answers, greenie, moreVars>>

\* ----- close_and_summarize
\* sleep_until returns
QuizTimerFires(s) ==
    /\ quiz[s].pc = "open"
    /\ clock >= quiz[s].close_at
    /\ quiz' = [quiz EXCEPT ![s] =
                  [@ EXCEPT !.pc = "tally", !.i = 0,
                            !.closed_votes =
                                [k \in 1..quiz[s].questions |->
                                    answers[quiz[s].quiz_id][k - 1]]]]
    /\ UNCHANGED <<rotVars, budget, schedVars, clock, answers, greenie, moreVars>>

\* user_correct[uid] = user_correct.get(uid, 0) + 1: a dict lists its keys in
\* the order they were first set
DictIncrement(d, uid) ==
    IF \E k \in DOMAIN d : d[k][1] = uid
    THEN [k \in DOMAIN d |-> IF d[k][1] = uid THEN <<uid, d[k][2] + 1>> ELSE d[k]]
    ELSE Append(d, <<uid, 1>>)

\* for uid, idx in answers.items(): if str(idx) == str(view.correct_idx): ...
RECURSIVE TallyQuestion(_, _, _)
TallyQuestion(user_correct, h, correct_idx) ==
    IF h = <<>> THEN user_correct
    ELSE TallyQuestion(IF Head(h)[2] = correct_idx
                       THEN DictIncrement(user_correct, Head(h)[1])
                       ELSE user_correct,
                       Tail(h), correct_idx)

\* answers = await r.hgetall(quiz:<id>:answers:<i>) and the loop over it
SummaryRead(s) ==
    /\ quiz[s].pc = "tally"
    /\ LET f == quiz[s]
           h == answers[f.quiz_id][f.i]
       IN quiz' = [quiz EXCEPT ![s] =
                     [f EXCEPT !.pc = IF f.i + 1 = f.questions THEN "save" ELSE "tally",
                               !.i = f.i + 1,
                               !.user_correct =
                                   TallyQuestion(@, h, f.correct_indices[f.i + 1]),
                               !.user_participation = @ \cup HashFields(h),
                               !.tallied = Append(@, h)]]
    /\ UNCHANGED <<rotVars, budget, schedVars, clock, answers, greenie, moreVars>>

\* for uid in user_participation (a set, in any order):
\* await r.lpush(greenie:<guild>:<uid>, entry)
ScoreEntry(f, u) ==
    [correct |-> IF \E k \in DOMAIN f.user_correct : f.user_correct[k][1] = u
                 THEN HashGet(f.user_correct, u) ELSE 0,
     total |-> f.questions, ts |-> clock]

SummaryPush(s, u) ==
    /\ quiz[s].pc = "save"
    /\ u \in quiz[s].user_participation
    /\ greenie' = [greenie EXCEPT ![u] = <<ScoreEntry(quiz[s], u)>> \o @]
    /\ quiz' = [quiz EXCEPT ![s] =
                  [@ EXCEPT !.pc = "trim", !.uid = u, !.pre = greenie[u],
                            !.entries = @ \cup {<<u, ScoreEntry(quiz[s], u)>>}]]
    /\ UNCHANGED <<rotVars, budget, schedVars, clock, answers, moreVars>>

\* await r.ltrim(key, 0, 9)
\* (first a variant that keeps the other end of the list)
ListTrimDropsNewest(list, n) ==
    SubSeq(list, IF Len(list) < n THEN 1 ELSE Len(list) - n + 1, Len(list))
ListTrim(list, n) == SubSeq(list, 1, IF Len(list) < n THEN Len(list) ELSE n)

SummaryTrim(s) ==
    /\ quiz[s].pc = "trim"
    /\ greenie' = [greenie EXCEPT ![quiz[s].uid] = ListTrim(@, ScoreCap)]
    /\ quiz' = [quiz EXCEPT ![s] =
                  [@ EXCEPT !.pc = "save",
                            !.user_participation = @ \ {quiz[s].uid}]]
    /\ UNCHANGED <<rotVars, budget, schedVars, clock, answers, moreVars>>

\* leaderboard = sorted(user_correct.items(), key=lambda x: -x[1]): a stable
\* sort, equal counts keep the order of the dict
InsertByCorrect(sorted, item) ==
    LET k == Cardinality({j \in DOMAIN sorted : sorted[j][2] >= item[2]})
    IN SubSeq(sorted, 1, k) \o <<item>> \o SubSeq(sorted, k + 1, Len(sorted))

RECURSIVE SortByCorrect(_, _)
SortByCorrect(d, sorted) ==
    IF d = <<>> THEN sorted
    ELSE SortByCorrect(Tail(d), InsertByCorrect(sorted, Head(d)))

\* The loop over user_participation is done: the leaderboard of the quiz.
SummaryLeaderboard(s) ==
    /\ quiz[s].pc = "save"
    /\ quiz[s].user_participation = {}
    /\ quiz' = [quiz EXCEPT ![s] =
                  [@ EXCEPT !.pc = "done", !.bpc = "keys",
                            !.leaderboard = SortByCorrect(quiz[s].user_correct, <<>>)]]
    /\ UNCHANGED <<rotVars, budget, schedVars, clock, answers, greenie, moreVars>>

\* ----- the Greenie Board
\* avg = sum(e["correct"] / e["total"] for e in entries) / len(entries),
\* kept as the exact fraction <<numerator, denominator>>.
FracAdd(x, y) == <<x[1] * y[2] + y[1] * x[2], x[2] * y[2]>>
FracLess(x, y) == x[1] * y[2] < y[1] * x[2]

RECURSIVE SumOfScores(_)
SumOfScores(entries) ==
    IF entries = <<>> THEN <<0, 1>>
    ELSE FracAdd(<<Head(entries).correct, Head(entries).total>>,
                 SumOfScores(Tail(entries)))

AverageOf(entries) ==
    <<SumOfScores(entries)[1], SumOfScores(entries)[2] * Len(entries)>>

\* max(e["ts"] for e in x[1])
NewestOf(entries) ==
    CHOOSE t \in {entries[k].ts : k \in DOMAIN entries} :
        \A k \in DOMAIN entries : entries[k].ts <= t

\* A row (uid, entries, avg) of user_greenies.
BoardRow(uid, entries) ==
    [uid |-> uid, entries |-> entries, avg |-> AverageOf(entries)]

\* The sort key (-x[2], -max ts) of row a is smaller than that of row b.
RanksBefore(a, b) ==
    \/ FracLess(b.avg, a.avg)
    \/ /\ ~FracLess(a.avg, b.avg)
       /\ NewestOf(a.entries) > NewestOf(b.entries)

\* user_greenies.sort(key=...): a stable sort
InsertByRank(sorted, row) ==
    LET k == Cardinality({j \in DOMAIN sorted : ~RanksBefore(row, sorted[j])})
    IN SubSeq(sorted, 1, k) \o <<row>> \o SubSeq(sorted, k + 1, Len(sorted))

RECURSIVE SortByRank(_, _)
SortByRank(rows, sorted) ==
    IF rows = <<>> THEN sorted
    ELSE SortByRank(Tail(rows), InsertByRank(sorted, Head(rows)))

\* await r.keys("greenie:<guild>:*"): the keys that exist, those of the
\* non-empty lists, in an order Redis does not specify.
GreenieKeys ==
    LET present == {u \in Users : greenie[u] # <<>>}
    IN {o \in [1..Cardinality(present) -> present] :
           \A a, b \in DOMAIN o : a # b => o[a] # o[b]}

\* entries = [json.loads(e) for e in await r.lrange(key, 0, 9)] and the
\* `if entries:` that follows, for the first key of keys.
ReadRow(keys, rows) ==
    LET entries == ListTrim(greenie[Head(keys)], ScoreCap)
    IN IF entries = <<>> THEN rows
       ELSE Append(rows, BoardRow(Head(keys), entries))

IdleBoard == [pc |-> "idle", runs |-> 0, keys |-> <<>>, user_greenies |-> <<>>,
              board |-> <<>>]

\* /greenieboard is invoked: greenie_keys = await r.keys(...)
GreenieboardKeys ==
    /\ gboard.pc = "idle"
    /\ gboard.runs < MaxBoards
    /\ \E keys \in GreenieKeys :
         gboard' = [IdleBoard EXCEPT !.pc = "read", !.runs = gboard.runs + 1,
                                     !.keys = keys]
    /\ UNCHANGED <<rotVars, budget, schedVars, quizVars, cache, legacy>>

\* One pass of the loop over greenie_keys, up to its await.
GreenieboardRead ==
    /\ gboard.pc = "read"
    /\ gboard.keys # <<>>
    /\ gboard' = [gboard EXCEPT !.keys = Tail(@),
                                !.user_greenies = ReadRow(gboard.keys, @)]
    /\ UNCHANGED <<rotVars, budget, schedVars, quizVars, cache, legacy>>

\* The sort, build_greenie_board_text and the reply.
GreenieboardReply ==
    /\ gboard.pc = "read"
    /\ gboard.keys = <<>>
    /\ gboard' = [gboard EXCEPT !.pc = "idle",
                                !.board = SortByRank(gboard.user_greenies, <<>>)]
    /\ UNCHANGED <<rotVars, budget, schedVars, quizVars, cache, legacy>>

\* close_and_summarize after its leaderboard: the same three steps for the
\* board in the results embed.
SummaryBoardKeys(s) ==
    /\ quiz[s].pc = "done"
    /\ quiz[s].bpc = "keys"
    /\ \E keys \in GreenieKeys :
         quiz' = [quiz EXCEPT ![s] = [@ EXCEPT !.bpc = "read", !.keys = keys]]
    /\ UNCHANGED <<rotVars, budget, schedVars, clock, answers, greenie, moreVars>>

SummaryBoardRead(s) ==
    /\ quiz[s].bpc = "read"
    /\ quiz[s].keys # <<>>
    /\ quiz' = [quiz EXCEPT ![s] =
                  [@ EXCEPT !.keys = Tail(@),
                            !.user_greenies = ReadRow(quiz[s].keys, @)]]
    /\ UNCHANGED <<rotVars, budget, schedVars, clock, answers, greenie, moreVars>>

SummaryBoardSort(s) ==
    /\ quiz[s].bpc = "read"
    /\ quiz[s].keys = <<>>
    /\ quiz' = [quiz EXCEPT ![s] =
                  [@ EXCEPT !.bpc = "sorted",
                            !.board = SortByRank(quiz[s].user_greenies, <<>>)]]
    /\ UNCHANGED <<rotVars, budget, schedVars, clock, answers, greenie, moreVars>>

\* A minute passes.  Discord drops an interaction that is not answered within
\* three seconds, so none passes between an invocation and its first reply;
\* the clock starts with the first /quiz and runs for MaxClock minutes, or
\* until the duration timers that are running have fired.
QuizTick ==
    /\ \E s \in Sessions : quiz[s].pc # "idle"
    /\ \A s \in Sessions : quiz[s].pc \notin {"get_terms", "announce"}
    /\ \/ clock < MaxClock
       \/ \E s \in Sessions : quiz[s].pc = "open" /\ clock < quiz[s].close_at
    /\ clock' = clock + 1
    /\ UNCHANGED <<rotVars, budget, schedVars, quiz, answers, greenie, moreVars>>

\* ------------------------------------------------------------ specifications
\* No quiz runs, no vote is stored and nobody has a score.
QuizQuiet ==
    /\ clock = 0
    /\ quiz = [s \in Sessions |-> IdleQuiz]
    /\ answers = [id \in QuizIds |-> [q \in QuestionIdx |-> <<>>]]
    /\ greenie = [u \in Users |-> <<>>]

\* Nobody asks for the board, and brevity_discord_bot.py does not run.
MoreQuiet ==
    /\ gboard = IdleBoard
    /\ cache = [all_terms |-> <<>>, used_terms |-> <<>>]
    /\ legacy = <<>>

\* No guild is configured and the scheduler loop never runs.
SchedQuiet ==
    /\ post_channels = [g \in Guilds |-> NoValue]
    /\ post_freq = [g \in Guilds |-> NoValue]
    /\ last_posted = [g \in Guilds |-> NoValue]
    /\ disabled_posting = {}
    /\ now = StartTime
    /\ reachable = {}
    /\ tick = IdleTick
    /\ handler = [g \in Guilds |-> "idle"]
    /\ posts = {}
    /\ off = {}

IdleHandlers ==
    /\ terms_backup = <<>>
    /\ call = [c \in Callers |-> IdleCall]
    /\ upd = [r \in Refreshers |-> IdleUpd]
    /\ returned = [g \in Guilds |-> <<>>]
    /\ budget = [invocations |-> 0, refreshes |-> 0, commands |-> 0,
                 votes |-> 0, clicks |-> 0]

\* Sequential rotation: one caller, a catalog fixed at the start.
InitSeq ==
    /\ terms \in ParsedPages(MaxTerms)
    /\ used = [g \in Guilds |-> {}]
    /\ IdleHandlers
    /\ SchedQuiet
    /\ QuizQuiet
    /\ MoreQuiet

NextSeq ==
    \/ \E g \in Guilds : NexttermStart(1, g, MaxCalls)
    \/ GetAllTerms(1)
    \/ LoadUsedTerms(1)
    \/ ResetUsedTerms(1)
    \/ SaveUsedTerm(1)
    \/ NexttermReply(1)

SpecSeq == InitSeq /\ [][NextSeq]_vars

\* Concurrent rotation: two /nextterm handlers and the catalog refresh,
\* interleaved at their awaits.  The store outlives the process, so a run
\* starts from any catalog and any used sets that earlier calls left.
InitRot ==
    /\ terms \in ParsedPages(MaxPage)
    /\ used \in [Guilds -> SUBSET KeysOf(terms)]
    /\ IdleHandlers
    /\ SchedQuiet
    /\ QuizQuiet
    /\ MoreQuiet

NextRot ==
    \/ \E c \in CmdCallers, g \in Guilds : NexttermStart(c, g, MaxInvocations)
    \/ \E c \in CmdCallers : GetAllTerms(c)
    \/ \E c \in CmdCallers : LoadUsedTerms(c)
    \/ \E c \in CmdCallers : ResetUsedTerms(c)
    \/ \E c \in CmdCallers : SaveUsedTerm(c)
    \/ \E c \in CmdCallers : NexttermReply(c)
    \/ UpdateParse("reloadterms", MaxRefreshes, {200})
    \/ UpdateLoadExisting("reloadterms")
    \/ UpdateBackup("reloadterms")
    \/ UpdateStore("reloadterms")

SpecRot == InitRot /\ [][NextRot]_vars

\* The scheduler: the loop of post_brevity_term over two configured guilds,
\* interleaved at its awaits with the admin commands and guild events.  The
\* store outlives the process: a run starts from the schedule an earlier run
\* left, with a post due soon, overdue, far off, or never recorded.
SchedCatalogs == {<<>>, <<Term("ALPHA", 1)>>}
\* <<post_freq, last_posted>> of a guild at the start: nothing recorded; the
\* default 24 hours with the last post 25 hours ago, or 24 hours less 10
\* minutes ago; 1 hour with the last post 55 minutes ago, or 57.5 minutes
\* ago (the loop of a restarted process is not in step with the posts of
\* the process before it, so that a due time falls between two runs).
NeverPosted == <<NoValue, NoValue>>
Overdue == <<NoValue, StartTime - 25 * Hour>>
DueSoon == <<NoValue, StartTime - 24 * Hour + 2 * TickEvery>>
Hourly == <<1, StartTime - Hour + TickEvery>>
HourlyBetweenRuns == <<1, StartTime - Hour + 1>>
\* The schedules of guilds 1 and 2 at the start.
InitSchedules == {<<NeverPosted, Overdue>>, <<DueSoon, Hourly>>,
                  <<Hourly, Hourly>>, <<HourlyBetweenRuns, NeverPosted>>}

InitSched ==
    /\ terms \in SchedCatalogs
    /\ used = [g \in Guilds |-> {}]
    /\ IdleHandlers
    /\ post_channels = [g \in Guilds |-> ChannelOf(g)]
    /\ \E schedule \in InitSchedules :
         /\ post_freq = [g \in Guilds |-> schedule[g][1]]
         /\ last_posted = [g \in Guilds |-> schedule[g][2]]
    /\ disabled_posting = {}
    /\ now = StartTime
    /\ reachable = {ChannelOf(g) : g \in Guilds}
    /\ tick = IdleTick
    /\ handler = [g \in Guilds |-> "idle"]
    /\ posts = {}
    /\ off = {}
    /\ QuizQuiet
    /\ MoreQuiet

NextSched ==
    \/ TickStart
    \/ \E g \in Guilds : TickIsPostingEnabled(g)
    \/ TickGetFrequency
    \/ TickGetLastPosted
    \/ TickRemoveStale
    \/ GetAllTerms(TickCaller)
    \/ LoadUsedTerms(TickCaller)
    \/ ResetUsedTerms(TickCaller)
    \/ SaveUsedTerm(TickCaller)
    \/ TickGotTerm
    \/ TickSendOk
    \/ TickSendRaises
    \/ TickSetLastPosted
    \/ TickEnd
    \/ \E pause \in Pauses : Advance(pause)
    \/ \E g \in Guilds : Setup(g)
    \/ \E g \in Guilds : SetupEnablePosting(g)
    \/ \E g \in Guilds : DisablePosting(g)
    \/ \E g \in Guilds : EnablePosting(g)
    \/ \E g \in Guilds, hours \in FrequencyInputs : SetFrequency(g, hours)
    \/ \E g \in Guilds : ChannelLost(g)
    \/ \E g \in Guilds, registered \in BOOLEAN : GuildRemove(g, registered)
    \/ \E g \in Guilds : RemoveUsed(g)
    \/ \E g \in Guilds : RemoveFreq(g)
    \/ \E g \in Guilds : RemoveLast(g)
    \/ \E g \in Guilds : RemoveDisabled(g)

SpecSched == InitSched /\ [][NextSched]_vars

\* Starting a quiz: /quiz with any arguments over catalogs of three, four and
\* five entries, with and without a repeated key (parse_brevity_terms keeps
\* every <dt> it finds), and the private quiz that follows.
QuizKeys == {"ALPHA", "BRAVO", "CHARLIE", "DELTA"}
FourTerms == <<Term("ALPHA", 1), Term("BRAVO", 1), Term("CHARLIE", 1),
               Term("DELTA", 1)>>
QuizCatalogs ==
    {<<Term("ALPHA", 1), Term("BRAVO", 1), Term("CHARLIE", 1)>>,
     FourTerms,
     <<Term("ALPHA", 1), Term("ALPHA", 2), Term("BRAVO", 1),
       Term("CHARLIE", 1)>>,
     <<Term("ALPHA", 1), Term("BRAVO", 1), Term("BRAVO", 2),
       Term("CHARLIE", 1), Term("DELTA", 1)>>}

InitQuizBuild ==
    /\ terms \in QuizCatalogs
    /\ used = [g \in Guilds |-> {}]
    /\ IdleHandlers
    /\ SchedQuiet
    /\ QuizQuiet
    /\ MoreQuiet

NextQuizBuild ==
    \/ \E questions \in QuestionInputs, mode \in ModeInputs,
          duration \in DurationInputs : QuizStart(1, questions, mode, duration)
    \/ QuizGetAllTerms(1)

SpecQuizBuild == InitQuizBuild /\ [][NextQuizBuild]_vars

\* A public quiz from its start to its summary, over a catalog of four
\* terms, with the votes of two users.  The score lists outlive the process:
\* at the start nobody has a score, or user 1 has nine earlier entries and
\* user 2 has ten.
EarlierScores(n) == [k \in 1..n |-> [correct |-> 0, total |-> 1, ts |-> 0 - k]]
InitScores == {[u \in Users |-> EarlierScores(0)],
               [u \in Users |-> EarlierScores(ScoreCap - 2 + u)]}
PublicQuestions == {1, 2}

InitQuiz ==
    /\ terms = FourTerms
    /\ used = [g \in Guilds |-> {}]
    /\ IdleHandlers
    /\ SchedQuiet
    /\ clock = 0
    /\ quiz = [s \in Sessions |-> IdleQuiz]
    /\ answers = [id \in QuizIds |-> [q \in QuestionIdx |-> <<>>]]
    /\ greenie \in InitScores
    /\ MoreQuiet

NextQuiz ==
    \/ \E questions \in PublicQuestions, duration \in DurationInputs :
          QuizStart(1, questions, "public", duration)
    \/ QuizGetAllTerms(1)
    \/ QuizAnnounce(1)
    \/ QuizAnnounceRaises(1)
    \/ QuizPost(1)
    \/ QuizPostRaises(1)
    \/ \E q \in QuestionIdx, u \in Users, idx \in AnswerInputs :
          HandleVote(1, q, u, idx)
    \/ QuizTimerFires(1)
    \/ SummaryRead(1)
    \/ \E u \in Users : SummaryPush(1, u)
    \/ SummaryTrim(1)
    \/ SummaryLeaderboard(1)
    \/ QuizTick

SpecQuiz == InitQuiz /\ [][NextQuiz]_vars

\* The Greenie Board: a public quiz of one question, whose summary builds
\* the board, and /greenieboard beside it.  The score lists at the start are
\* what earlier quizzes left: none; equal averages with different newest
\* entries; different averages; two users with the same single entry.
Score(correct, total, ts) == [correct |-> correct, total |-> total, ts |-> ts]
BoardScores ==
    {<<<<>>, <<>>>>,
     <<<<Score(1, 2, 0 - 2)>>, <<Score(1, 1, 0 - 1), Score(0, 1, 0 - 3)>>>>,
     <<<<Score(0, 1, 0 - 1)>>, <<Score(1, 1, 0 - 1)>>>>,
     <<<<Score(1, 1, 0 - 1)>>, <<Score(1, 1, 0 - 1)>>>>}

InitBoard ==
    /\ terms = FourTerms
    /\ used = [g \in Guilds |-> {}]
    /\ IdleHandlers
    /\ SchedQuiet
    /\ clock = 0
    /\ quiz = [s \in Sessions |-> IdleQuiz]
    /\ answers = [id \in QuizIds |-> [q \in QuestionIdx |-> <<>>]]
    /\ \E scores \in BoardScores : greenie = [u \in Users |-> scores[u]]
    /\ MoreQuiet

NextBoard ==
    \/ QuizStart(1, 1, "public", 1)
    \/ QuizGetAllTerms(1)
    \/ QuizAnnounce(1)
    \/ QuizPost(1)
    \/ \E u \in Users, idx \in AnswerInputs : HandleVote(1, 0, u, idx)
    \/ QuizTimerFires(1)
    \/ SummaryRead(1)
    \/ \E u \in Users : SummaryPush(1, u)
    \/ SummaryTrim(1)
    \/ SummaryLeaderboard(1)
    \/ SummaryBoardKeys(1)
    \/ SummaryBoardRead(1)
    \/ SummaryBoardSort(1)
    \/ GreenieboardKeys
    \/ GreenieboardRead
    \/ GreenieboardReply
    \/ QuizTick

SpecBoard == InitBoard /\ [][NextBoard]_vars

\* ------------------------------------------------------------------ claims
\* C1: with the catalog fixed and a guild's used set empty at the start, the
\* first S sequential calls of get_next_brevity_term for that guild return
\* pairwise distinct terms, S being the number of distinct term keys of the
\* catalog.
C1_NoRepeatRotation ==
    \A g \in Guilds : \A i, j \in 1..Len(returned[g]) :
        (i < j /\ j <= Cardinality(KeysOf(terms)))
            => returned[g][i] # returned[g][j]

\* A guild has been served a whole catalog of three keys, one call each.
C1_Witness ==
    \E g \in Guilds :
        /\ Cardinality(KeysOf(terms)) = 3
        /\ Len(returned[g]) = 3
        /\ {returned[g][i] : i \in 1..3} = KeysOf(terms)

\* C2: selection and used-set update are one atomic step per guild: the step
\* that marks a call's chosen term used never marks a term that is already in
\* the guild's used set while another catalog term is still unused.
C2_AtomicSelection ==
    [][\A c \in CmdCallers :
          (call[c].pc = "save" /\ call'[c].pc = "done")
              => \/ call'[c].chosen[1].term \notin used[call[c].guild]
                 \/ KeysOf(terms) \subseteq used[call[c].guild]]_vars

\* C3: every guild's used set is a subset of the catalog's keys, in every
\* reachable state.
C3_UsedSubsetOfCatalog ==
    \A g \in Guilds : used[g] \subseteq KeysOf(terms)

\* C4: the used set is cleared only when it covers every catalog term, and a
\* call that cleared it leaves exactly its chosen term in the used set.
C4_ResetOnExhaustion ==
    [][\A c \in CmdCallers :
          /\ (call[c].pc = "reset" /\ call'[c].pc = "save")
                => KeysOf(terms) \subseteq used[call[c].guild]
          /\ (call[c].pc = "save" /\ call'[c].pc = "done" /\ call[c].was_reset)
                => used'[call[c].guild] = {call'[c].chosen[1].term}]_vars

\* The scheduler loop takes a step of its own body.
TickSteps ==
    tick'.pc # tick.pc \/ call'[TickCaller] # call[TickCaller]

\* C5: a scheduled post is delivered only while now is within Window of the
\* due time last_posted + freq_hours that the tick computed; a tick that finds
\* now outside the window goes on to the next guild, sends nothing to that
\* guild, and leaves its used set, last_posted and config as they were.
C5_ToleranceWindow ==
    /\ [](\A p \in posts : p.at - p.due \in (0 - Window)..Window)
    /\ [](\A g \in tick.outside :
             \A p \in posts : ~(p.guild = g /\ p.at = tick.ran_at))
    /\ [][(/\ tick.pc = "get_last" /\ tick'.pc # "get_last"
           /\ LET d == now - (get_last_posted(tick.guild) + tick.freq_hours * Hour)
              IN d < 0 - Window \/ d > Window)
            => /\ tick'.pc = "loop"
               /\ tick.guild \notin tick'.todo
               /\ posts' = posts
               /\ used' = used
               /\ last_posted' = last_posted
               /\ post_channels' = post_channels]_vars

\* One run of the loop has passed over a guild outside its window and has
\* delivered a post to the other guild, inside its window.
C5_Witness ==
    /\ tick.outside # {}
    /\ \E p \in posts : p.at = tick.ran_at /\ p.guild \notin tick.outside

\* C6: a guild with the frequency of 24 hours whose last post was 25 hours ago
\* is due: the tick that evaluates it does not pass it over.
C6_OverdueIsDue ==
    [][(/\ tick.pc = "get_last" /\ tick'.pc # "get_last"
        /\ tick.guild \notin disabled_posting
        /\ tick.freq_hours = 24
        /\ get_last_posted(tick.guild) = now - 25 * Hour)
         => tick'.pc # "loop"]_vars

\* C7: a guild never gets two scheduled posts for one due time; the step
\* after a delivery records the time of the post as last_posted; and no post
\* follows a post of the same guild within the window of the earlier due time.
C7_IdempotentPosting ==
    /\ [](\A p, q \in posts :
             (p.guild = q.guild /\ p # q)
                 => /\ p.due # q.due
                    /\ (q.at >= p.at => q.at > p.due + Window))
    /\ [][(tick.pc = "set_last" /\ tick'.pc # "set_last")
            => /\ last_posted'[tick.guild] = now
               /\ \E p \in posts : p.guild = tick.guild /\ p.at = now]_vars

\* A guild was posted to and its last_posted recorded, and a later run of the
\* loop, still inside the window of that due time, has passed the guild over.
C7_Witness ==
    \E p \in posts :
        /\ p.guild \in tick.outside
        /\ last_posted[p.guild] = p.at
        /\ p.at < tick.ran_at
        /\ tick.ran_at <= p.due + Window

\* C8: a run of the loop that starts after posting was disabled for a guild,
\* or after the guild was removed, and before /enableposting or /setup, sends
\* no post to the guild and changes neither its used set nor its last_posted.
C8_Cancellation ==
    [][\A g \in tick.off :
          /\ \A p \in posts' \ posts : p.guild # g
          /\ TickSteps => (used'[g] = used[g] /\ last_posted'[g] = last_posted[g])]_vars

\* A run of the loop has taken up a guild that was off when the run started,
\* at a time inside the guild's window.
C8_Witness ==
    \E i \in 1..Len(tick.visited) :
        LET g == tick.visited[i]
        IN /\ g \in tick.off
           /\ post_channels[g] # NoValue
           /\ InWindow(now, get_last_posted(g) + get_post_frequency(g) * Hour)

\* C9: when a scheduled delivery fails (the channel is not found, or the send
\* raises) the guild's config is removed.
C9_FailFast ==
    [][(/\ tick.pc \in {"remove_stale", "send"}
        /\ tick'.pc = "loop"
        /\ posts' = posts)
         => post_channels'[tick.guild] = NoValue]_vars

\* C10: an error on one guild leaves the loop running: the run goes on to
\* every other configured guild and ends, and the next run starts.
RunningPcs ==
    {"loop", "get_freq", "get_last", "remove_stale", "next_term", "send", "set_last"}

ClosedPcs == {"tally", "save", "trim", "done"}

\* C11: once a public session is Closed (its duration timer has fired), no
\* step stores a vote for it: the answer hashes of the session stay as they
\* were, so no later read of them sees a vote made after the closure.
C11_ClosureBoundary ==
    [][\A s \in Sessions :
          quiz[s].pc \in ClosedPcs
              => answers'[quiz[s].quiz_id] = answers[quiz[s].quiz_id]]_vars

\* C12: a participant may vote on a question again and again, and no vote is
\* turned away as a duplicate: every answer hash shows, for each participant,
\* the selection of that participant's most recent vote on the question, and
\* so does the hash the summary reads at tally time.
C12_LastWriteWins ==
    /\ [](\A s \in Sessions : \A q \in QuestionIdx : \A u \in Users :
            q < quiz[s].posted
                => HashGet(answers[quiz[s].quiz_id][q], u) = quiz[s].latest[q + 1][u])
    /\ [][\A s \in Sessions :
            (quiz[s].pc = "tally" /\ quiz'[s].i = quiz[s].i + 1)
                => \A u \in Users :
                     HashGet(quiz'[s].tallied[quiz'[s].i], u)
                         = quiz[s].latest[quiz'[s].i][u]]_vars

\* A user changed the selection on a question while the session was open, and
\* the summary has read the later selection.
C12_Witness ==
    \E s \in Sessions : \E q \in QuestionIdx : \E u \in Users :
        /\ quiz[s].pc = "done"
        /\ <<q, u>> \in quiz[s].revised
        /\ HashGet(quiz[s].closed_votes[q + 1], u) = quiz[s].latest[q + 1][u]
        /\ HashGet(quiz[s].tallied[q + 1], u) = quiz[s].latest[q + 1][u]

\* C13: votes on different (session, question, participant) keys do not
\* disturb one another, in any interleaving: a step changes the stored
\* selection of a key only if it is a vote on that key, the vote's selection
\* is then the stored one, and every key that was voted on is among the
\* fields the summary reads.
C13_DisjointVotes ==
    /\ [](\A s \in Sessions : \A q \in QuestionIdx : \A u \in Users :
            (q < quiz[s].posted /\ quiz[s].latest[q + 1][u] # NoValue)
                => u \in HashFields(answers[quiz[s].quiz_id][q]))
    /\ [][\A s \in Sessions : \A q \in QuestionIdx : \A u \in Users :
            q < quiz[s].posted
                => IF quiz'[s].latest[q + 1][u] = quiz[s].latest[q + 1][u]
                   THEN HashGet(answers'[quiz[s].quiz_id][q], u)
                            = HashGet(answers[quiz[s].quiz_id][q], u)
                   ELSE HashGet(answers'[quiz[s].quiz_id][q], u)
                            = quiz'[s].latest[q + 1][u]]_vars

\* Two users voted on the same question, and the summary read both votes.
C13_Witness ==
    \E s \in Sessions : \E q \in QuestionIdx :
        /\ quiz[s].pc = "done"
        /\ q < quiz[s].questions
        /\ HashFields(quiz[s].tallied[q + 1]) = Users
        /\ \A u \in Users :
              HashGet(quiz[s].tallied[q + 1], u) = quiz[s].latest[q + 1][u]

\* C14: the append of a ScoreEntry to a score history of length L, from its
\* lpush to the end of its ltrim, leaves a history of length min(L + 1, 10):
\* the new entry first, then the previous entries in their order, the oldest
\* one gone when L = 10.
C14_ScoreAppend ==
    [][\A s \in Sessions :
          (quiz[s].pc = "trim" /\ quiz'[s].pc = "save")
              => LET before == quiz[s].pre
                     after == greenie'[quiz[s].uid]
                 IN /\ Len(after) = IF Len(before) + 1 < ScoreCap
                                     THEN Len(before) + 1 ELSE ScoreCap
                    /\ <<quiz[s].uid, after[1]>> \in quiz[s].entries
                    /\ after[1] \notin {before[k] : k \in DOMAIN before}
                    /\ \A k \in 2..Len(after) : after[k] = before[k - 1]]_vars

\* An append to a full history is complete: ten entries, the pushed one first
\* and the ninth of the earlier ones last.
C14_Witness ==
    \E s \in Sessions :
        /\ quiz[s].pc = "save"
        /\ quiz[s].uid \in Users
        /\ Len(quiz[s].pre) = ScoreCap
        /\ Len(greenie[quiz[s].uid]) = ScoreCap
        /\ <<quiz[s].uid, greenie[quiz[s].uid][1]>> \in quiz[s].entries
        /\ greenie[quiz[s].uid][ScoreCap] = quiz[s].pre[ScoreCap - 1]

\* C15: in every reachable state, the states between the lpush and the ltrim
\* of an append included, each score history holds at most ten entries.
C15_ScoreBound ==
    \A u \in Users : Len(greenie[u]) <= ScoreCap

\* A question's options are in order: four of them, one marked correct, and
\* no two with the same term key.
OptionIntegrity(options) ==
    /\ Len(options) = Buttons
    /\ Cardinality({k \in DOMAIN options : options[k].is_correct}) = 1
    /\ \A a, b \in DOMAIN options :
          a # b => options[a].term # options[b].term

\* C16: every question /quiz has generated, in private or public mode, has
\* exactly four options, exactly one of them marked correct, pairwise distinct
\* term keys (so no distractor carries the correct term's key), and, in
\* public mode, a recorded correct index that points at the correct option.
C16_OptionIntegrity ==
    \A s \in Sessions :
        /\ \A v \in DOMAIN quiz[s].asked :
              quiz[s].asked[v].stopped \/ OptionIntegrity(quiz[s].asked[v].options)
        /\ \A k \in DOMAIN quiz[s].used_options :
              /\ OptionIntegrity(quiz[s].used_options[k])
              /\ quiz[s].correct_indices[k] \in 0..(Buttons - 1)
              /\ quiz[s].used_options[k][quiz[s].correct_indices[k] + 1].is_correct

\* The frame has left the checks of /quiz behind.
PastChecks(s) == quiz[s].pc \notin {"idle", "get_terms"}

\* Nothing of a session exists in the frame: no question, no quiz id.
NoSession(s) ==
    /\ quiz[s].asked = <<>>
    /\ quiz[s].used_options = <<>>
    /\ quiz[s].quiz_id = <<>>
    /\ quiz[s].posted = 0

\* C17: when the catalog holds fewer than four distinct term keys, /quiz ends
\* with the insufficient-content outcome and no session.
C17_InsufficientContent ==
    \A s \in Sessions :
        (PastChecks(s) /\ Cardinality(KeysOf(terms)) < MinTerms)
            => /\ quiz[s].pc = "rejected"
               /\ quiz[s].outcome = "insufficient"
               /\ NoSession(s)

\* C18 as stated: a question count below 1 or above the number of catalog
\* entries is rejected with the range error and no session.
C18_RangeError ==
    \A s \in Sessions :
        (PastChecks(s) /\ (quiz[s].questions < 1 \/ quiz[s].questions > Len(terms)))
            => /\ quiz[s].pc = "rejected"
               /\ quiz[s].outcome = "range"
               /\ NoSession(s)

\* C18, amended: a question count below 1 or above the number of catalog
\* entries is rejected before any question is built, anything is announced or
\* any stored state changes; the outcome is the range error when the catalog
\* has at least four entries and the insufficient-content outcome otherwise.
C18_OutOfRangeRejected ==
    /\ [](\A s \in Sessions :
            (PastChecks(s)
                /\ (quiz[s].questions < 1 \/ quiz[s].questions > Len(terms)))
                => /\ quiz[s].pc = "rejected"
                   /\ quiz[s].outcome = IF Len(terms) < MinTerms
                                        THEN "insufficient" ELSE "range"
                   /\ NoSession(s))
    /\ [][\A s \in Sessions :
            (quiz[s].pc = "get_terms" /\ quiz'[s].pc = "rejected")
                => UNCHANGED <<rotVars, schedVars, clock, answers, greenie>>]_vars

\* A count above the number of entries of a catalog of four or more was
\* rejected with the range error.
C18_Witness ==
    \E s \in Sessions :
        /\ quiz[s].pc = "rejected"
        /\ quiz[s].outcome = "range"
        /\ quiz[s].questions > Len(terms)
        /\ Len(terms) >= MinTerms

\* The number of questions on which user u's vote in the hashes votes is
\* the correct index.
CorrectCount(s, votes, u) ==
    Cardinality({k \in 1..quiz[s].questions :
                    /\ u \in HashFields(votes[k])
                    /\ HashGet(votes[k], u) = quiz[s].correct_indices[k]})

\* C19: when a public session has been summarized, every user who had voted
\* on some question when the session closed has got exactly one score entry,
\* with correct = the number of questions on which that user's final vote is
\* the correct index and total = the number of questions; a user who had not
\* voted has got none.
C19_SummaryScoring ==
    \A s \in Sessions : \A u \in Users :
        quiz[s].pc = "done"
            => LET mine == {e \in quiz[s].entries : e[1] = u}
                   voted == \E k \in 1..quiz[s].questions :
                               u \in HashFields(quiz[s].closed_votes[k])
               IN IF voted
                  THEN /\ Cardinality(mine) = 1
                       /\ \A e \in mine :
                             /\ e[2].correct = CorrectCount(s, quiz[s].closed_votes, u)
                             /\ e[2].total = quiz[s].questions
                  ELSE mine = {}

\* The hashes with the same fields and values as h, in any order of fields.
Reorderings(h) ==
    {p \in [DOMAIN h -> {h[k] : k \in DOMAIN h}] :
        \A a, b \in DOMAIN h : a # b => p[a] # p[b]}

\* The leaderboard close_and_summarize makes of the hashes hs, read one per
\* question from question k on.
RECURSIVE LeaderboardOf(_, _, _, _)
LeaderboardOf(hs, correct_indices, k, user_correct) ==
    IF k > Len(hs) THEN SortByCorrect(user_correct, <<>>)
    ELSE LeaderboardOf(hs, correct_indices, k + 1,
                       TallyQuestion(user_correct, hs[k], correct_indices[k]))

\* C20: the leaderboard of a summarized session lists its users by descending
\* correct count, and its order is settled by the votes alone: the same final
\* votes, in whatever order they arrived in their hashes, give the same
\* leaderboard.
C20_LeaderboardOrder ==
    \A s \in Sessions :
        quiz[s].pc = "done"
            => /\ \A a, b \in DOMAIN quiz[s].leaderboard :
                     a < b => quiz[s].leaderboard[a][2] >= quiz[s].leaderboard[b][2]
               /\ \A hs \in [DOMAIN quiz[s].tallied ->
                                UNION {Reorderings(quiz[s].tallied[k]) :
                                          k \in DOMAIN quiz[s].tallied}] :
                     (\A k \in DOMAIN hs : hs[k] \in Reorderings(quiz[s].tallied[k]))
                         => LeaderboardOf(hs, quiz[s].correct_indices, 1, <<>>)
                                = quiz[s].leaderboard

\* The rows of board b are in the order of the ranking: by descending
\* average, and by newest entry first where the averages are equal.
BoardRanked(b) ==
    \A i, j \in DOMAIN b :
        i < j => /\ ~FracLess(b[i].avg, b[j].avg)
                 /\ b[i].avg[1] * b[j].avg[2] = b[j].avg[1] * b[i].avg[2]
                        => NewestOf(b[i].entries) >= NewestOf(b[j].entries)

\* C21: a Greenie Board lists the users by descending average of
\* correct/total over their stored entries, users with equal averages by
\* their newest entry's timestamp, newest first; and the board of a quiz
\* summary and the board of /greenieboard, made from the same stored entries,
\* show the same order.
C21_GreenieRanking ==
    /\ BoardRanked(gboard.board)
    /\ \A s \in Sessions :
          /\ BoardRanked(quiz[s].board)
          /\ (/\ quiz[s].bpc = "sorted"
              /\ gboard.board # <<>>
              /\ {quiz[s].board[k] : k \in DOMAIN quiz[s].board}
                    = {gboard.board[k] : k \in DOMAIN gboard.board})
                => quiz[s].board = gboard.board

\* ---------------------------------------------------------------------
\* The announced session under the event loop's scheduling: a coroutine
\* that is ready to run is run (the sends of the posting loop and the awaits
\* of close_and_summarize() return or raise), time passes, and
\* asyncio.sleep(duration) wakes up.  Votes are user input: nothing obliges
\* anyone to vote.
FairQuiz ==
    /\ WF_vars(QuizPost(1) \/ QuizPostRaises(1))
    /\ WF_vars(QuizTick)
    /\ WF_vars(QuizTimerFires(1))
    /\ WF_vars(SummaryRead(1))
    /\ WF_vars(\E u \in Users : SummaryPush(1, u))
    /\ WF_vars(SummaryTrim(1))
    /\ WF_vars(SummaryLeaderboard(1))

InitQuizLive ==
    /\ terms = FourTerms
    /\ used = [g \in Guilds |-> {}]
    /\ IdleHandlers
    /\ SchedQuiet
    /\ clock = 0
    /\ quiz = [s \in Sessions |-> IdleQuiz]
    /\ answers = [id \in QuizIds |-> [q \in QuestionIdx |-> <<>>]]
    /\ greenie = [u \in Users |-> <<>>]
    /\ MoreQuiet

NextQuizLive ==
    \/ \E duration \in DurationInputs : QuizStart(1, 2, "public", duration)
    \/ QuizGetAllTerms(1)
    \/ QuizAnnounce(1)
    \/ QuizAnnounceRaises(1)
    \/ QuizPost(1)
    \/ QuizPostRaises(1)
    \/ \E idx \in AnswerInputs : HandleVote(1, 0, Initiator, idx)
    \/ QuizTimerFires(1)
    \/ SummaryRead(1)
    \/ \E u \in Users : SummaryPush(1, u)
    \/ SummaryTrim(1)
    \/ SummaryLeaderboard(1)
    \/ QuizTick

SpecQuizLive == InitQuizLive /\ [][NextQuizLive]_vars /\ FairQuiz

\* A session is announced once its announcement is in the channel: the
\* posting loop ("post") and the running timer ("open") come after it.
Announced(s) == quiz[s].pc \in {"post", "open"}

\* C22: every public session that was announced is eventually closed and
\* summarized (its summary has been sent, pc "done"), whatever happens
\* while its questions are posted.
C22_SessionLiveness ==
    \A s \in Sessions : Announced(s) ~> (quiz[s].pc = "done")

\* ---------------------------------------------------------------------
\* Ingestion: /reloadterms and refresh_terms_daily both call
\* update_brevity_terms, against a server that may fail, refuse or answer,
\* over the catalog an earlier run left (none, or one term); a /nextterm
\* handler reads the catalog meanwhile.
MaxReloads == 2

InitIngest ==
    /\ terms \in ParsedPages(1)
    /\ used = [g \in Guilds |-> {}]
    /\ IdleHandlers
    /\ SchedQuiet
    /\ QuizQuiet
    /\ MoreQuiet

NextIngest ==
    \/ \E r \in Refreshers : UpdateParse(r, MaxReloads, HttpStatuses)
    \/ \E r \in Refreshers : UpdateLoadExisting(r)
    \/ \E r \in Refreshers : UpdateBackup(r)
    \/ UpdateStore("reloadterms")
    \/ UpdateStore("refresh_terms_daily")
    \/ NexttermStart(1, 1, 1)
    \/ GetAllTerms(1)

SpecIngest == InitIngest /\ [][NextIngest]_vars

\* C23: the stored catalog and its backup change only by a step of a
\* refresh whose fetch was answered with success (status 200) and whose
\* parse found terms; a network error, a non-success response or an empty
\* parse leaves both exactly as they were.
C23_FailureKeepsCatalog ==
    [][(terms' # terms \/ terms_backup' # terms_backup)
          => \E r \in Refreshers : /\ upd'[r] # upd[r]
                                   /\ upd[r].status = 200
                                   /\ upd[r].new_terms # <<>>]_vars

\* C24: a refresh that stores its terms leaves them, whole, as the active
\* catalog, and leaves as the backup the catalog that was active immediately
\* before that store; a reader in between gets the whole stored catalog of
\* that moment.
C24_ReplaceWithBackup ==
    [][/\ \A r \in Refreshers :
             (upd[r].pc = "store" /\ upd'[r].pc = "idle")
                => (terms' = upd[r].new_terms /\ terms_backup' = terms)
       /\ (call[1].pc = "get_all" /\ call'[1].pc = "load_used")
             => call'[1].all_terms = terms]_vars

\* ---------------------------------------------------------------------
\* Two public quizzes of one question, started by the same user in the same
\* community, from /quiz to the read of the tally.
InitQuizTwo ==
    /\ terms = FourTerms
    /\ used = [g \in Guilds |-> {}]
    /\ IdleHandlers
    /\ SchedQuiet
    /\ clock = 0
    /\ quiz = [s \in Sessions |-> IdleQuiz]
    /\ answers = [id \in QuizIds |-> [q \in QuestionIdx |-> <<>>]]
    /\ greenie = [u \in Users |-> <<>>]
    /\ MoreQuiet

NextQuizTwo ==
    \/ \E s \in Sessions : QuizStart(s, 1, "public", 1)
    \/ \E s \in Sessions : QuizGetAllTerms(s)
    \/ \E s \in Sessions : QuizAnnounce(s)
    \/ \E s \in Sessions : QuizPost(s)
    \/ \E s \in Sessions, idx \in AnswerInputs : HandleVote(s, 0, Initiator, idx)
    \/ \E s \in Sessions : QuizTimerFires(s)
    \/ \E s \in Sessions : SummaryRead(s)
    \/ QuizTick

SpecQuizTwo == InitQuizTwo /\ [][NextQuizTwo]_vars

\* C25: two sessions never have the same id, and a vote cast in one session
\* is never among the votes another session tallies: every vote stored
\* under a session's id was cast on a view of that session.
C25_SessionIdentity ==
    /\ \A s, o \in Sessions :
          (s # o /\ quiz[s].quiz_id # <<>> /\ quiz[o].quiz_id # <<>>)
             => quiz[s].quiz_id # quiz[o].quiz_id
    /\ \A s \in Sessions, q \in QuestionIdx, u \in Users :
          (/\ quiz[s].quiz_id # <<>>
           /\ q < quiz[s].questions
           /\ u \in HashFields(answers[quiz[s].quiz_id][q]))
             => /\ q + 1 \in DOMAIN quiz[s].latest
                /\ quiz[s].latest[q + 1][u] # NoValue

\* ---------------------------------------------------------------------
\* brevity_discord_bot.py: the earlier bot, which keeps its catalog and its
\* used list in one file.  Its handlers run without an await from load_cache
\* to save_cache, so each is one step.
MaxLegacy == 2

\* fetch_brevity_terms: list({titles}), a duplicate-free list in any order,
\* or [] when the request or the decoding raised.
Titles(n) == {ts \in SeqsUpTo(Keys, n) :
                \A i, j \in 1..Len(ts) : i # j => ts[i] # ts[j]}

ElementsOf(list) == {list[i] : i \in 1..Len(list)}

\* if set(new_terms) != set(cache["all_terms"]): replace and forget
Refreshed(c, new_terms) ==
    IF ElementsOf(new_terms) # ElementsOf(c.all_terms)
    THEN [all_terms |-> new_terms, used_terms |-> <<>>]
    ELSE c

\* get_next_term(cache): what it may return, or the IndexError of
\* random.choice([]).  A returned term t is held as <<t>>.
GetNextTerm(c) ==
    LET remaining == ElementsOf(c.all_terms) \ ElementsOf(c.used_terms)
        reset == remaining = {}
        pool == IF reset THEN ElementsOf(c.all_terms) ELSE remaining
        kept == IF reset THEN <<>> ELSE c.used_terms
    IN  IF pool = {}
        THEN {[raised |-> TRUE, next_term |-> <<>>,
               cache |-> [c EXCEPT !.used_terms = <<>>]]}
        ELSE {[raised |-> FALSE, next_term |-> <<t>>,
               cache |-> [c EXCEPT !.used_terms = Append(kept, t)]] :
                 t \in pool}

\* The file after the handler: save_cache(cache) comes after get_next_term
\* has returned, and an exception skips it.
FileAfter(file, res) == IF res.raised THEN file ELSE res.cache

\* legacy holds what the last handler did, and how many have run.
LegacyRuns == IF legacy = <<>> THEN 0 ELSE legacy[1].run
LegacyDid(entry) ==
    <<[run |-> LegacyRuns + 1, handler |-> entry.handler,
       all_terms |-> entry.all_terms, outcome |-> entry.outcome,
       next_term |-> entry.next_term]>>

\* !brevity
Brevity(new_terms) ==
    /\ LegacyRuns < MaxLegacy
    /\ LET mem == Refreshed(cache, new_terms)
       IN  \E res \in GetNextTerm(mem) :
             /\ cache' = FileAfter(cache, res)
             /\ legacy' = LegacyDid(
                   [handler |-> "brevity", all_terms |-> mem.all_terms,
                    outcome |-> IF res.raised THEN "IndexError" ELSE "sent",
                    next_term |-> res.next_term])
    /\ UNCHANGED <<rotVars, budget, schedVars, quizVars, gboard>>

\* The loop daily_brevity, every 24 hours; channel: bot.get_channel found it.
DailyBrevity(new_terms, channel) ==
    /\ LegacyRuns < MaxLegacy
    /\ LET mem == Refreshed(cache, new_terms)
       IN  IF mem.all_terms = <<>>
           THEN /\ cache' = cache
                /\ legacy' = LegacyDid(
                      [handler |-> "daily_brevity", all_terms |-> <<>>,
                       outcome |-> "no_terms", next_term |-> <<>>])
           ELSE \E res \in GetNextTerm(mem) :
                  /\ cache' = FileAfter(cache, res)
                  /\ legacy' = LegacyDid(
                        [handler |-> "daily_brevity",
                         all_terms |-> mem.all_terms,
                         outcome |-> IF channel THEN "sent" ELSE "no_channel",
                         next_term |-> res.next_term])
    /\ UNCHANGED <<rotVars, budget, schedVars, quizVars, gboard>>

\* next() on a catalog that may be empty: /nextterm of brevitybot.py over
\* the used sets an earlier catalog left, and the handlers of the earlier
\* bot, whose fetch may fail.
InitEmpty ==
    /\ terms \in ParsedPages(1)
    /\ \E S \in SUBSET {"ALPHA", "BRAVO"} : used = [g \in Guilds |-> S]
    /\ IdleHandlers
    /\ SchedQuiet
    /\ QuizQuiet
    /\ MoreQuiet

NextEmpty ==
    \/ \E g \in Guilds : NexttermStart(1, g, MaxInvocations)
    \/ GetAllTerms(1)
    \/ LoadUsedTerms(1)
    \/ ResetUsedTerms(1)
    \/ SaveUsedTerm(1)
    \/ NexttermReply(1)
    \/ \E new_terms \in Titles(MaxPage) : Brevity(new_terms)
    \/ \E new_terms \in Titles(MaxPage), channel \in BOOLEAN :
          DailyBrevity(new_terms, channel)

SpecEmpty == InitEmpty /\ [][NextEmpty]_vars

\* C26: next() on an empty catalog ends with the no-content outcome (None
\* from get_next_brevity_term, answered with "No terms available."; the
\* "no terms" return of the earlier bot), gives no term, and leaves the
\* stored used-set as it was.
C26_EmptyCatalog ==
    [][/\ (call[1].pc = "get_all" /\ terms = <<>> /\ call'[1] # call[1])
             => /\ call'[1].pc = "done"
                /\ call'[1].chosen = <<>>
                /\ used' = used
       /\ (call[1].pc = "done" /\ call[1].chosen = <<>> /\ call'[1] # call[1])
             => (returned' = returned /\ used' = used)
       /\ (legacy' # legacy /\ legacy'[1].all_terms = <<>>)
             => /\ legacy'[1].outcome = "no_terms"
                /\ legacy'[1].next_term = <<>>
                /\ cache' = cache]_vars

\* ---------------------------------------------------------------------
\* A private quiz of one or two questions: the initiator and another user
\* click the buttons of its views, and a click can arrive while the reply
\* to an earlier one is still being sent.
InitQuizPrivate ==
    /\ terms = FourTerms
    /\ used = [g \in Guilds |-> {}]
    /\ IdleHandlers
    /\ SchedQuiet
    /\ clock = 0
    /\ quiz = [s \in Sessions |-> IdleQuiz]
    /\ answers = [id \in QuizIds |-> [q \in QuestionIdx |-> <<>>]]
    /\ greenie = [u \in Users |-> <<>>]
    /\ MoreQuiet

NextQuizPrivate ==
    \/ \E questions \in PublicQuestions : QuizStart(1, questions, "private", 1)
    \/ QuizGetAllTerms(1)
    \/ \E v \in 1..(MaxClicks + 1), u \in Users, idx \in AnswerInputs :
          PrivateClick(1, v, u, idx)
    \/ \E k \in 1..MaxClicks : PrivateAnswered(1, k)
    \/ QuizTick

SpecQuizPrivate == InitQuizPrivate /\ [][NextQuizPrivate]_vars

\* The views of a private quiz that still take clicks.
LiveViews(s) ==
    {v \in DOMAIN quiz[s].asked :
        ~quiz[s].asked[v].stopped /\ clock < quiz[s].asked[v].deadline}

\* C27: in a private quiz at most one question is live at a time, no
\* question is asked twice, and the score never exceeds the number of
\* questions.
C27_PrivateSequential ==
    \A s \in Sessions :
       /\ Cardinality(LiveViews(s)) <= 1
       /\ \A v, w \in DOMAIN quiz[s].asked :
             quiz[s].asked[v].q_idx = quiz[s].asked[w].q_idx => v = w
       /\ quiz[s].score <= quiz[s].questions
       /\ quiz[s].reported <= quiz[s].questions

\* ---------------------------------------------------------------------
\* The states of a public session, by the position of quiz(): Building
\* (the catalog is read, the questions are built, the announcement is being
\* sent), Announced (the posting loop), Collecting (the duration timer runs),
\* Closed (the timer has fired: tally and score entries), Summarized.
StageOf(pc) ==
    CASE pc = "idle" -> 0
      [] pc \in {"get_terms", "announce"} -> 1
      [] pc = "post" -> 2
      [] pc = "open" -> 3
      [] pc \in {"tally", "save", "trim"} -> 4
      [] pc = "done" -> 5
      [] OTHER -> 6

\* Positions of a command that replied with a refusal or an error and
\* returned: the session is over.
EndedPcs == {"rejected", "raised", "returned"}

\* C28: a public session moves through Building, Announced, Collecting,
\* Closed, Summarized one state at a time and never backwards (or it ends
\* while it is built, announced or posted); the duration timer runs only
\* when every question has been posted; and a tally is read only when the
\* timer has fired.
C28_StateOrder ==
    /\ [](\A s \in Sessions :
            /\ StageOf(quiz[s].pc) \in 3..5
                  => quiz[s].posted = quiz[s].questions
            /\ (StageOf(quiz[s].pc) \in 4..5 \/ quiz[s].tallied # <<>>)
                  => /\ clock >= quiz[s].close_at
                     /\ quiz[s].closed_votes # <<>>)
    /\ [][\A s \in Sessions :
            LET a == quiz[s].pc
                b == quiz'[s].pc
            IN  \/ StageOf(b) = StageOf(a)
                \/ StageOf(a) < 5 /\ StageOf(b) = StageOf(a) + 1
                \/ StageOf(a) \in 1..2 /\ b \in EndedPcs]_vars

\* A session of two questions has gone through all five states, with a vote
\* on its second question.
C28_Witness ==
    \E s \in Sessions :
        /\ quiz[s].pc = "done"
        /\ quiz[s].mode = "public"
        /\ quiz[s].questions = 2
        /\ quiz[s].posted = 2
        /\ Len(quiz[s].tallied) = 2
        /\ quiz[s].tallied[2] # <<>>

\* ---------------------------------------------------------------------
\* C29: when no term comes from next() or the delivery raises, the step
\* that fails writes no last-post time; for the rest of that run the guild
\* is not taken up again and the run writes no last-post time for it; and
\* the next run takes up every configured guild, that one included.
C29_FailedTickKeepsSchedule ==
    [][/\ \A g \in Guilds :
             (g \in tick'.errors /\ g \notin tick.errors
                 /\ tick.pc \in {"next_term", "send"})
                => /\ last_posted' = last_posted
                   /\ post_channels' = post_channels
       /\ \A g \in Guilds :
             (g \in tick.errors /\ tick'.ran_at = tick.ran_at)
                => /\ g \notin tick'.todo
                   /\ tick'.guild # g
                   /\ last_posted'[g] \in {last_posted[g], NoValue}
       /\ (tick.pc = "idle" /\ tick'.pc = "loop")
             => tick'.todo = {g \in Guilds : post_channels[g] # NoValue}]_vars

\* A run failed on a guild whose last post is on record, after an earlier
\* run had failed too; the guild is configured still.
C29_Witness ==
    \E g \in Guilds :
        /\ tick.erred
        /\ g \in tick.errors
        /\ last_posted[g] # NoValue
        /\ post_channels[g] # NoValue
        /\ \E p \in posts : p.guild = g

\* ---------------------------------------------------------------------
\* next_post_time of a guild, from what is stored now.
DueAt(g) == get_last_posted(g) + get_post_frequency(g) * Hour

\* C30: with a run of the loop every TickEvery, no due time that lies ahead
\* is passed between two runs: if the time of a run is before the window of
\* a guild's due time, the time of the next run is not after it; and a run
\* that evaluates a guild at a time inside the window does not pass it over
\* as outside.
C30_NoMissedWindow ==
    [][/\ now' = now + TickEvery
             => \A g \in Guilds :
                   (now < DueAt(g) /\ ~InWindow(now, DueAt(g)))
                      => ~(now' > DueAt(g) /\ ~InWindow(now', DueAt(g)))
       /\ (tick.pc = "get_last" /\ tick'.pc # "get_last"
              /\ InWindow(now, get_last_posted(tick.guild)
                                  + tick.freq_hours * Hour))
             => tick.guild \notin tick'.outside]_vars

\* A post was delivered for a due time that fell between two runs of the
\* loop, by a run inside its window, and that due time has passed.
C30_Witness ==
    \E p \in posts :
        /\ (p.due - StartTime) % TickEvery # 0
        /\ InWindow(p.at, p.due)
        /\ now > p.due

\* ---------------------------------------------------------------------
\* The comparison of a refresh: /reloadterms over catalogs an earlier
\* ingestion left, whose keys may be written in another letter case than the
\* page has them now, or occur twice.
\* str.lower(), on the keys of these catalogs.
Lower(k) ==
    CASE k \in {"ALPHA", "Alpha", "alpha"} -> "alpha"
      [] k \in {"BRAVO", "Bravo", "bravo"} -> "bravo"
      [] k \in {"CHARLIE", "Charlie", "charlie"} -> "charlie"
      [] OTHER -> k

MergeCatalogs ==
    {<<>>,
     <<Term("ALPHA", 1)>>,
     <<Term("ALPHA", 2), Term("BRAVO", 1)>>,
     <<Term("Alpha", 1)>>,
     <<Term("alpha", 2), Term("CHARLIE", 1)>>,
     <<Term("BRAVO", 1), Term("BRAVO", 2)>>}

InitMerge ==
    /\ terms \in MergeCatalogs
    /\ used = [g \in Guilds |-> {}]
    /\ IdleHandlers
    /\ SchedQuiet
    /\ QuizQuiet
    /\ MoreQuiet

NextMerge ==
    \/ UpdateParse("reloadterms", MaxReloads, {200})
    \/ UpdateLoadExisting("reloadterms")
    \/ UpdateBackup("reloadterms")
    \/ UpdateStore("reloadterms")

SpecMerge == InitMerge /\ [][NextMerge]_vars

\* The entries of the existing catalog whose key is that of t, letter case
\* aside.
SameKeyEntries(t, existing) ==
    {i \in 1..Len(existing) : Lower(existing[i].term) = Lower(t.term)}

\* C31: a refresh that has compared its terms with the existing catalog
\* counts as added exactly the new terms whose key, letter case aside, is the
\* key of no existing term; a new term whose key matches existing entries
\* that all have another body is counted as updated, and one whose matching
\* entries all have its body is counted as unchanged.
C31_CaseInsensitiveMerge ==
    \A r \in Refreshers :
        upd[r].pc \in {"backup", "store"} =>
            LET new == upd[r].new_terms
                old == upd[r].existing_raw
                matched(i) == SameKeyEntries(new[i], old)
            IN  /\ upd[r].added
                      = Cardinality({i \in 1..Len(new) : matched(i) = {}})
                /\ upd[r].updated
                      >= Cardinality({i \in 1..Len(new) :
                            /\ matched(i) # {}
                            /\ \A j \in matched(i) :
                                  old[j].definition # new[i].definition})
                /\ upd[r].unchanged
                      >= Cardinality({i \in 1..Len(new) :
                            /\ matched(i) # {}
                            /\ \A j \in matched(i) :
                                  old[j].definition = new[i].definition})

\* ---------------------------------------------------------------------
\* Positions of the loop at which freq_hours holds the interval of the guild
\* in hand.
HasFrequencyPcs == {"get_last", "remove_stale", "next_term", "send", "set_last"}

\* C32: the interval the scheduler uses for a guild is always greater than 0
\* hours, whether it is read from the store or held by a run of the loop; a
\* stored interval changes only to a positive input of /setfrequency (a
\* rejected one changes nothing) or is deleted by on_guild_remove; and a
\* guild with no stored interval is evaluated with 24 hours.
C32_PositiveInterval ==
    /\ [](/\ \A g \in Guilds : get_post_frequency(g) > 0
          /\ tick.pc \in HasFrequencyPcs => tick.freq_hours > 0)
    /\ [][/\ \A g \in Guilds :
                post_freq'[g] # post_freq[g]
                   => \/ post_freq'[g] \in FrequencyInputs /\ post_freq'[g] > 0
                      \/ post_freq'[g] = NoValue /\ handler[g] = "rm_freq"
          /\ (tick.pc = "get_freq" /\ tick'.pc = "get_last"
                 /\ post_freq[tick.guild] = NoValue)
                => tick'.freq_hours = 24]_vars

\* /setfrequency 1 was accepted for a guild that had no stored interval and
\* no post on record, and a run of the loop evaluates the guild with it,
\* while the other guild has none stored.
C32_Witness ==
    \E g \in Guilds :
        /\ post_freq[g] = 1
        /\ last_posted[g] = NoValue
        /\ tick.pc = "get_last"
        /\ tick.guild = g
        /\ tick.freq_hours = 1
        /\ \E o \in Guilds : post_freq[o] = NoValue

\* ---------------------------------------------------------------------
\* C33: a click on a view of a private quiz by a user other than the one
\* who started it changes neither the score nor the result reported, asks no
\* question and answers none, and leaves every view as open or as stopped as
\* it was, with the options it had.
C33_PrivateSingleParticipant ==
    [][\A s \in Sessions :
          (/\ budget'.clicks = budget.clicks + 1
           /\ quiz[s].asked # <<>>
           /\ quiz'[s].clicker # Initiator)
             => /\ quiz'[s].score = quiz[s].score
                /\ quiz'[s].reported = quiz[s].reported
                /\ quiz'[s].pc = quiz[s].pc
                /\ quiz'[s].inflight = quiz[s].inflight
                /\ DOMAIN quiz'[s].asked = DOMAIN quiz[s].asked
                /\ \A v \in DOMAIN quiz[s].asked :
                      /\ quiz'[s].asked[v].q_idx = quiz[s].asked[v].q_idx
                      /\ quiz'[s].asked[v].stopped = quiz[s].asked[v].stopped
                      /\ quiz'[s].asked[v].options = quiz[s].asked[v].options
                /\ LiveViews(s)' = LiveViews(s)]_vars

\* The initiator has answered the first question of two correctly, and the
\* last click, on the view of the second question, was another user's: that
\* view is open still.
C33_Witness ==
    \E s \in Sessions :
        /\ quiz[s].mode = "private"
        /\ quiz[s].clicker \notin {0, Initiator}
        /\ quiz[s].score = 1
        /\ Len(quiz[s].asked) = 2
        /\ quiz[s].asked[1].stopped
        /\ LiveViews(s) = {2}

\* ---------------------------------------------------------------------
\* The scheduler for as long as the process runs: the loop body starts
\* every five minutes without end, or after a downtime.  time.time() is
\* decades past the epoch, later than the epoch plus any interval in use.
\* Times from Horizon on are kept as Horizon: every due time of these
\* behaviours that the loop can still reach lies before it.
LongAfterEpoch == StartTime + DefaultFreq * Hour
Horizon == LongAfterEpoch + 2 * Hour

\* The loop body starts again; runs are not counted.
TickStartLive ==
    /\ tick.pc = "idle"
    /\ tick.ran_at < now
    /\ tick' = LoadConfig(0)
    /\ UNCHANGED <<rotVars, budget, post_channels, post_freq, last_posted,
                   disabled_posting, now, reachable, handler, posts, off, quizVars, moreVars>>

\* The loop sleeps until its next period, or the process is down meanwhile.
AdvanceLive(pause) ==
    /\ tick.pc = "idle"
    /\ tick.ran_at = now
    /\ now' = IF now + pause > Horizon THEN Horizon ELSE now + pause
    /\ tick' = [tick EXCEPT !.ran_at = -1]
    /\ UNCHANGED <<rotVars, budget, post_channels, post_freq, last_posted,
                   disabled_posting, reachable, handler, posts, off, quizVars, moreVars>>

\* <<post_freq, last_posted>> of guild 2 at the start: a post is due at the
\* next run; due three runs on; or due one window ago, so that the first run
\* is the last one inside the window.
DueNextRun == <<1, LongAfterEpoch - Hour + TickEvery>>
DueLater == <<1, LongAfterEpoch - Hour + 3 * TickEvery>>
LastChance == <<1, LongAfterEpoch - Hour - Window>>
LiveSchedules == {DueNextRun, DueLater, LastChance}

\* Guild 1 has not run /setup yet and has nothing stored; guild 2 is set up.
InitSchedLive ==
    /\ terms = <<Term("ALPHA", 1)>>
    /\ used = [g \in Guilds |-> {}]
    /\ IdleHandlers
    /\ post_channels = [g \in Guilds |-> IF g = 2 THEN ChannelOf(g) ELSE NoValue]
    /\ \E schedule \in LiveSchedules :
         /\ post_freq = [g \in Guilds |-> IF g = 2 THEN schedule[1] ELSE NoValue]
         /\ last_posted = [g \in Guilds |-> IF g = 2 THEN schedule[2] ELSE NoValue]
    /\ disabled_posting = {}
    /\ now = LongAfterEpoch
    /\ reachable = {ChannelOf(2)}
    /\ tick = IdleTick
    /\ handler = [g \in Guilds |-> "idle"]
    /\ posts = {}
    /\ off = {}
    /\ QuizQuiet
    /\ MoreQuiet

\* A delivery fails in one run at most: channel.send raises for a while,
\* not for ever.
NextSchedLive ==
    \/ TickStartLive
    \/ \E g \in Guilds : TickIsPostingEnabled(g)
    \/ TickGetFrequency
    \/ TickGetLastPosted
    \/ GetAllTerms(TickCaller)
    \/ LoadUsedTerms(TickCaller)
    \/ ResetUsedTerms(TickCaller)
    \/ SaveUsedTerm(TickCaller)
    \/ TickGotTerm
    \/ TickSendOk
    \/ ~tick.erred /\ TickSendRaises
    \/ TickSetLastPosted
    \/ TickEnd
    \/ \E pause \in Pauses : AdvanceLive(pause)
    \/ Setup(1)
    \/ SetupEnablePosting(1)

\* The event loop runs every coroutine that is ready, and time passes: each
\* step of the loop body is taken when it can be, and the loop body starts
\* again after every sleep.  /setup is a user's doing: nothing obliges it.
FairSched ==
    /\ WF_vars(TickStartLive)
    /\ WF_vars(\E g \in Guilds : TickIsPostingEnabled(g))
    /\ WF_vars(TickGetFrequency)
    /\ WF_vars(TickGetLastPosted)
    /\ WF_vars(GetAllTerms(TickCaller))
    /\ WF_vars(LoadUsedTerms(TickCaller))
    /\ WF_vars(ResetUsedTerms(TickCaller))
    /\ WF_vars(SaveUsedTerm(TickCaller))
    /\ WF_vars(TickGotTerm)
    /\ WF_vars(TickSendOk \/ (~tick.erred /\ TickSendRaises))
    /\ WF_vars(TickSetLastPosted)
    /\ WF_vars(TickEnd)
    /\ WF_vars(\E pause \in Pauses : AdvanceLive(pause))
    /\ WF_vars(SetupEnablePosting(1))

SpecSchedLive == InitSchedLive /\ [][NextSchedLive]_vars /\ FairSched

\* A guild that is set up, with posting enabled, a channel the client finds
\* and a catalog that is not empty.
ReadyToPost(g) ==
    /\ post_channels[g] # NoValue
    /\ handler[g] = "idle"
    /\ g \notin disabled_posting
    /\ post_channels[g] \in reachable
    /\ terms # <<>>

\* C34: a guild that is ready to post eventually receives a scheduled post.
C34_PostingLiveness ==
    \A g \in Guilds : ReadyToPost(g) ~> (\E p \in posts : p.guild = g)

\* ---------------------------------------------------------------------
\* The term keys that scheduled posts have delivered to a guild's channel.
Delivered(g) == {p.term : p \in {x \in posts : x.guild = g}}

\* C35: on the scheduler path, whenever the loop is not in the middle of a
\* guild's post (the term chosen, its delivery not yet tried), every key in
\* the guild's used-set is the key of a term that was delivered to its
\* channel; a delivery that fails leaves no key behind.
C35_UsedMeansShown ==
    \A g \in Guilds :
        ~(tick.guild = g /\ tick.pc \in {"next_term", "send"})
            => used[g] \subseteq Delivered(g)

\* ---------------------------------------------------------------------
\* The bot is removed from guild 1 while a run of the loop or a /nextterm
\* of that guild may be under way: on_guild_remove interleaves with them at
\* every await.  Guild 1 is set up, with a post due at this run; its used
\* set and its disabled flag are what earlier commands left.
InitRemove ==
    /\ terms = <<Term("ALPHA", 1)>>
    /\ used \in [Guilds -> SUBSET KeysOf(terms)]
    /\ IdleHandlers
    /\ post_channels = [g \in Guilds |-> ChannelOf(g)]
    /\ post_freq = [g \in Guilds |-> Hourly[1]]
    /\ last_posted = [g \in Guilds |-> Hourly[2]]
    /\ disabled_posting \in {{}, {1}}
    /\ now = StartTime
    /\ reachable = {ChannelOf(g) : g \in Guilds}
    /\ tick = IdleTick
    /\ handler = [g \in Guilds |-> "idle"]
    /\ posts = {}
    /\ off = disabled_posting
    /\ QuizQuiet
    /\ MoreQuiet

\* /nextterm is invoked in a guild the bot is in.
NextRemove ==
    \/ TickStart
    \/ \E g \in Guilds : TickIsPostingEnabled(g)
    \/ TickGetFrequency
    \/ TickGetLastPosted
    \/ TickRemoveStale
    \/ \E c \in {TickCaller, 1} : GetAllTerms(c)
    \/ \E c \in {TickCaller, 1} : LoadUsedTerms(c)
    \/ \E c \in {TickCaller, 1} : ResetUsedTerms(c)
    \/ \E c \in {TickCaller, 1} : SaveUsedTerm(c)
    \/ TickGotTerm
    \/ TickSendOk
    \/ TickSendRaises
    \/ TickSetLastPosted
    \/ TickEnd
    \/ post_channels[1] # NoValue /\ NexttermStart(1, 1, MaxInvocations)
    \/ NexttermReply(1)
    \/ GuildRemove(1, TRUE)
    \/ RemoveUsed(1)
    \/ RemoveFreq(1)
    \/ RemoveLast(1)
    \/ RemoveDisabled(1)

SpecRemove == InitRemove /\ [][NextRemove]_vars

\* Nothing is stored for the guild.
NothingStored(g) ==
    /\ post_channels[g] = NoValue
    /\ used[g] = {}
    /\ post_freq[g] = NoValue
    /\ last_posted[g] = NoValue
    /\ g \notin disabled_posting

\* C36: when on_guild_remove finishes for a guild, nothing is stored for
\* that guild; and from then on nothing is stored for it again, whatever the
\* loop or a /nextterm that had taken the guild up does, until /setup.
C36_RemovalComplete ==
    [][\A g \in Guilds :
          /\ (handler[g] = "rm_disabled" /\ handler'[g] = "idle")
                => NothingStored(g)'
          /\ (/\ NothingStored(g)
              /\ g \in off
              /\ handler[g] = "idle"
              /\ handler'[g] = "idle")
                => NothingStored(g)']_vars

\* ---------------------------------------------------------------------
\* A public quiz of one question whose store may fail a write: the votes of
\* two users up to the read of the tally.
InitQuizVote ==
    /\ terms = FourTerms
    /\ used = [g \in Guilds |-> {}]
    /\ IdleHandlers
    /\ SchedQuiet
    /\ clock = 0
    /\ quiz = [s \in Sessions |-> IdleQuiz]
    /\ answers = [id \in QuizIds |-> [q \in QuestionIdx |-> <<>>]]
    /\ greenie = [u \in Users |-> <<>>]
    /\ MoreQuiet

NextQuizVote ==
    \/ QuizStart(1, 1, "public", 1)
    \/ QuizGetAllTerms(1)
    \/ QuizAnnounce(1)
    \/ QuizPost(1)
    \/ \E u \in Users, idx \in AnswerInputs : HandleVote(1, 0, u, idx)
    \/ \E u \in Users, idx \in AnswerInputs : HandleVoteRaises(1, 0, u, idx)
    \/ QuizTimerFires(1)
    \/ SummaryRead(1)
    \/ QuizTick

SpecQuizVote == InitQuizVote /\ [][NextQuizVote]_vars

\* C37: while a public session collects votes, and until its tally is read,
\* the selection each participant was last told of is the one stored for
\* that participant, which is what the tally reads: a vote that was not
\* stored was not acknowledged.
C37_AcknowledgedVotesCount ==
    \A s \in Sessions, q \in QuestionIdx, u \in Users :
        (/\ quiz[s].pc \in {"post", "open", "tally"}
         /\ q < quiz[s].posted
         /\ quiz[s].latest[q + 1][u] # NoValue)
            => HashGet(answers[quiz[s].quiz_id][q], u) = quiz[s].latest[q + 1][u]

\* ---------------------------------------------------------------------
\* C38: every entry of every score list has a total of at least 1 and a
\* correct count between 0 and its total, so that the average of a list
\* that is not empty, as the Greenie Board computes it, divides by no zero
\* and lies between 0 and 1.
C38_WellFormedScores ==
    \A u \in Users :
        /\ \A k \in DOMAIN greenie[u] :
              /\ greenie[u][k].total >= 1
              /\ greenie[u][k].correct >= 0
              /\ greenie[u][k].correct <= greenie[u][k].total
        /\ greenie[u] # <<>>
              => LET avg == AverageOf(greenie[u])
                 IN  avg[2] > 0 /\ avg[1] >= 0 /\ avg[1] <= avg[2]

\* The summary of a quiz of one question has stored a full score for one
\* participant and an entry without a correct answer for the other.
C38_Witness ==
    \E s \in Sessions, u, v \in Users :
        /\ quiz[s].pc = "done"
        /\ greenie[u] # <<>>
        /\ greenie[u][1] = [correct |-> 1, total |-> 1, ts |-> clock]
        /\ greenie[v] # <<>>
        /\ greenie[v][1] = [correct |-> 0, total |-> 1, ts |-> clock]

\* ---------------------------------------------------------------------
\* C39: the leaderboard of a quiz lists every user who voted in it exactly
\* once, those without a correct answer included: the users on it are the
\* users for whom the summary has stored a score entry.
C39_LeaderboardCoversParticipants ==
    \A s \in Sessions :
        quiz[s].pc = "done" =>
            LET board == quiz[s].leaderboard
            IN  /\ {board[k][1] : k \in DOMAIN board}
                      = {e[1] : e \in quiz[s].entries}
                /\ \A j, k \in DOMAIN board :
                      board[j][1] = board[k][1] => j = k

====
